---------------------------- MODULE Spec2Model ----------------------------
(***************************************************************************)
(* Model of the trace-analysis tools of sarchlab/zeonica:                  *)
(*   - log_parser.py          EnhancedLogParser: ingestion of DataFlow     *)
(*                            lines and per-link FIFO replay               *)
(*   - export_cgra_csv.py, generate_interactive_html.py                    *)
(*                            per-(PE, cycle) status reconstruction        *)
(*   - generate_interactive_html_with_trace.py                             *)
(*                            dataflow graph, backward and forward trace   *)
(*   - generate_interactive_html.py build_token_events                     *)
(*   - test/histogram/analyze_all.py  per-PE utilization, backpressure     *)
(*   - debug_console.py       CGRADebugConsole: loading and commands       *)
(*   - the parsers of a raw file and their handling of bad lines           *)
(*   - diagnose_backpressure.py  BackpressureDiagnosis queries             *)
(*   - tool/utilization_plot.py  parse_tile_port                           *)
(*   - debugger/dashboard.py  the image indices of the dashboard           *)
(* Each tool has its own specification (SpecFifo, SpecStatus, ...) over    *)
(* the shared variables; the variables of the other tools stay at their    *)
(* initial value.                                                          *)
(***************************************************************************)
EXTENDS Integers, Sequences, FiniteSets, TLC

VARIABLES
    \* ---- log_parser.py: EnhancedLogParser ----
    ingested,           \* the log entries parse_log has consumed so far (ghost)
    events,             \* per ingested entry: its cycle, link, push/pop, payload (ghost)
    timestamps,         \* self.timestamps: timestamp -> list of operations
    pending_data,       \* self.pending_data: link_key -> list of data values
    data_flow_history,  \* self.data_flow_history: list of flow events
    device_positions,   \* self.device_positions (values; the key is the value's text)
    driver_positions,   \* self.driver_positions (values; the key is the value's text)
    prev_pending,       \* pending_data before the last ingested line (ghost)
    integrity_errors,   \* fault records written by the parser (the code writes none)
    first_build,        \* the derived structures when parse_log first returned (ghost)
    resolved,           \* the positions the code gives the two ends of a route
    \* ---- export_cgra_csv.py, generate_interactive_html.py ----
    status_log,         \* the lines of the log file the status tools read
    csv_status,         \* Status columns written by export_core_activity_csv
    grid_status,        \* coreState[..].status after updateGrid, with currentCycle
    timeline_status,    \* status of each PE block drawn by renderTimeline
    \* ---- generate_interactive_html_with_trace.py ----
    all_events,         \* build_dataflow_graph: every parsed line
    graph,              \* graph: node -> list of (incoming node, edge_info)
    reverse_graph,      \* reverse_graph: node -> list of (outgoing node, edge_info)
    trace_pc,           \* "idle", "backward" (inside the while loop) or "done"
    sink_node,          \* argument of trace_backward
    max_depth,          \* argument of trace_backward
    path,               \* local path; the returned list once trace_pc = "done"
    visited,            \* local visited
    current_node,       \* local current_node
    depth,              \* local depth
    trace_fn,           \* the trace function called: "trace_backward", ...
    source_node,        \* argument of trace_forward / traceForward
    queue,              \* local queue of the forward traces
    \* ---- generate_interactive_html.py build_token_events ----
    token_log,          \* the lines of the log file
    token_built,        \* build_token_events has returned
    token_events,       \* token_events: token_id -> list of token events
    point_index,        \* point_index: grid point -> token_id
    \* ---- test/histogram/analyze_all.py ----
    util_log,           \* the lines of the log file
    util_pc,            \* "log", "analyzed" or "plotted"
    pe_stats,           \* pe_stats: pe_key -> exec_events
    link_stats,         \* link_stats: link_key -> send_events, recv_events
    max_time,           \* max_time
    total_cycles,       \* total_cycles returned by analyze_all
    utilization,        \* generate_pe_heatmap: pe_key -> utilization
    pe_backpressure,    \* pe_backpressure: pe_key -> total_cycles, by_type, by_reason
    port_backpressure,  \* port_backpressure: port_key -> total_cycles, by_type, by_direction
    backpressure_rate,  \* generate_backpressure_heatmap: pe_key -> backpressure_rate
    \* ---- the parsers of a raw file: export_cgra_csv.py parse_log,
    \*      build_dataflow_graph_for_tracing, build_dataflow_graph,
    \*      debug_console.py _load_log ----
    raw_log,            \* the lines of the log file, as text
    exporter_pc,        \* CGRAStateExporter: "new", "parsed", "exported" or "raised"
    events_by_cycle,    \* CGRAStateExporter.events_by_cycle: time -> msg -> entries
    max_cycle,          \* CGRAStateExporter.max_cycle
    csv_rows,           \* export_core_activity_csv: (core, cycle) -> Status written
    tracing_pc,         \* build_dataflow_graph_for_tracing: "new" or "returned"
    tracing_graph,      \* the dict build_dataflow_graph_for_tracing returned
    loader_pc,          \* build_dataflow_graph: "new", "returned" or "raised"
    loaded,             \* its locals graph, reverse_graph, all_events
    html_pc,            \* generate_interactive_html: "new" or "parsed"
    html_index,         \* its locals events_by_cycle, pestate_by_cycle, max_cycle, cores
    console_pc,         \* CGRADebugConsole: "new" or "loaded"
    console_events,     \* CGRADebugConsole.events
    console_by_cycle,   \* CGRADebugConsole.events_by_cycle: cycle -> events
    console_max_cycle,  \* CGRADebugConsole.max_cycle
    console_cmd,        \* the last command given to the console
    by_core,            \* do_cycle: by_core, (x, y) -> events
    by_msg,             \* do_stats: by_msg, msg -> count
    blocked_cycles,     \* do_stats: blocked_cycles
    \* ---- diagnose_backpressure.py: BackpressureDiagnosis ----
    diag_events,        \* self.events
    diag_query,         \* the last query: its name, x, y and max_cycle
    blocking_events,    \* find_blocking_reasons: blocking_events
    blocks_by_cycle,    \* show_dataflow_vs_blockage: the keys of blocks_by_cycle
    \* ---- debugger/dashboard.py ----
    viz_ready,          \* st.session_state['viz_ready']
    static_files,       \* number of *.png files in the static directory
    mesh_files,         \* number of *.png files in dynamic/mesh
    dfg_files,          \* number of *.png files in dynamic/dfg
    static_idx,         \* st.session_state['static_idx'], Missing before it is set
    timestep,           \* st.session_state['timestep'], Missing before it is set
    num_timesteps,      \* num_timesteps of the run that drew the d_prev/d_next buttons
    shown               \* what the last run of the script displayed

fifoVars == <<ingested, events, timestamps, pending_data, data_flow_history,
              device_positions, driver_positions, prev_pending, integrity_errors,
              first_build, resolved>>

statusVars == <<status_log, csv_status, grid_status, timeline_status>>

graphVars == <<all_events, graph, reverse_graph>>
traceVars ==
    <<trace_pc, sink_node, max_depth, path, visited, current_node, depth,
      trace_fn, source_node, queue>>

tokenVars == <<token_log, token_built, token_events, point_index>>
backpressureVars == <<pe_backpressure, port_backpressure, backpressure_rate>>
utilVars ==
    <<util_log, util_pc, pe_stats, link_stats, max_time, total_cycles, utilization,
      backpressureVars>>

htmlVars == <<html_pc, html_index>>
exporterVars == <<exporter_pc, events_by_cycle, max_cycle, csv_rows>>
consoleVars ==
    <<console_pc, console_events, console_by_cycle, console_max_cycle,
      console_cmd, by_core, by_msg, blocked_cycles>>
ingestVars ==
    <<raw_log, exporterVars, tracing_pc, tracing_graph, loader_pc, loaded, htmlVars, consoleVars>>

diagnosisVars == <<diag_events, diag_query, blocking_events, blocks_by_cycle>>
dashboardVars ==
    <<viz_ready, static_files, mesh_files, dfg_files, static_idx, timestep,
      num_timesteps, shown>>
toolVars == <<diagnosisVars, dashboardVars>>

vars ==
    <<fifoVars, statusVars, graphVars, traceVars, tokenVars, utilVars, ingestVars,
      toolVars>>

-----------------------------------------------------------------------------
(* Bounds of the model *)

\* longest log (number of DataFlow lines) fed to parse_log
MaxLines == 3
\* longest log read by the status tools
MaxStatusLines == 3
\* longest log read by build_dataflow_graph
MaxGraphLines == 2
\* longest log read by build_dataflow_graph before a forward trace
MaxForwardLines == 3
\* longest log read by build_token_events
MaxTokenLines == 3
\* longest log read by analyze_all
MaxUtilLines == 3

(* Program constants *)
DEFAULT_GRID_ROWS == 3
DEFAULT_GRID_COLS == 3

-----------------------------------------------------------------------------
(* Python containers *)

\* defaultdict(list) / dict.get(k, []): the list stored under k, or the empty list
DictGet(d, k) == IF k \in DOMAIN d THEN d[k] ELSE <<>>

\* mutant: d[k].insert(0, v), the newest element comes first
DictPrepend(d, k, v) ==
    [x \in (DOMAIN d) \cup {k} |-> IF x = k THEN <<v>> \o DictGet(d, k) ELSE d[x]]

\* d[k].append(v) on a defaultdict(list): creates the key when it is missing
DictAppend(d, k, v) ==
    [x \in (DOMAIN d) \cup {k} |-> IF x = k THEN Append(DictGet(d, k), v) ELSE d[x]]

\* mutant: list.pop() takes the newest element instead of the oldest
DictPopLast(d, k) == [d EXCEPT ![k] = SubSeq(d[k], 1, Len(d[k]) - 1)]

\* list.pop(0) applied to the list stored under k
DictPopFirst(d, k) == [d EXCEPT ![k] = Tail(d[k])]

\* the empty dict
EmptyDict == [x \in {} |-> <<>>]

\* event.get(...) of a field the line does not carry: None
Missing == -1

-----------------------------------------------------------------------------
(* Device strings of the log, as the regular expressions of                *)
(* _parse_device_position read them: "Device.Tile[r][c].Core.<port>",      *)
(* "Driver.Device<direction>[index]", or the empty string.                 *)

Tile(r, c, p) == [kind |-> "Tile", row |-> r, col |-> c, port |-> p,
                  direction |-> "", index |-> 0]
Driver(d, i)  == [kind |-> "Driver", row |-> 0, col |-> 0, port |-> "",
                  direction |-> d, index |-> i]
EmptyString   == [kind |-> "", row |-> 0, col |-> 0, port |-> "",
                  direction |-> "", index |-> 0]

\* Python's None, as a parsed position
None == <<"none", 0, 0, "">>

\* EnhancedLogParser._parse_device_position with self.grid_rows/grid_cols
\* at their defaults
_parse_device_position(device_string) ==
    IF device_string.kind = "" THEN None
    ELSE IF device_string.kind = "Tile"
    THEN <<"tile", device_string.row, device_string.col, device_string.port>>
    ELSE IF device_string.direction = "West"
    THEN <<"driver", device_string.index, -1, "East">>
    ELSE IF device_string.direction = "East"
    THEN <<"driver", device_string.index, DEFAULT_GRID_COLS, "West">>
    ELSE IF device_string.direction = "North"
    THEN <<"driver", -1, device_string.index, "South">>
    ELSE IF device_string.direction = "South"
    THEN <<"driver", DEFAULT_GRID_ROWS, device_string.index, "North">>
    ELSE None

-----------------------------------------------------------------------------
(* Log lines: one JSON object per line, msg = "DataFlow" *)

Payloads == {"5", "7"}
\* the cycle numbers the Time field of a log line takes
Times == {0, 2}
LastTime == CHOOSE t \in Times : \A u \in Times : u <= t

T00East  == Tile(0, 0, "East")
T01West  == Tile(0, 1, "West")
T00West  == Tile(0, 0, "West")
DrvWest0 == Driver("West", 0)
DrvEast0 == Driver("East", 0)

DataFlowEntry(behavior, data, time, s, d, f, t) ==
    [msg |-> "DataFlow", Behavior |-> behavior, Data |-> data, Time |-> time,
     Src |-> s, Dst |-> d, From |-> f, To |-> t]

\* The lines the simulator writes: Send/Recv carry Src and Dst, FeedIn
\* carries From (driver) and To (tile), Collect carries From only.
LogEntries ==
    UNION { { DataFlowEntry("Send", v, t, T00East, T01West, EmptyString, EmptyString),
              DataFlowEntry("Recv", v, t, T00East, T01West, EmptyString, EmptyString),
              DataFlowEntry("FeedIn", v, t, EmptyString, EmptyString, DrvWest0, T00West),
              DataFlowEntry("Recv", v, t, DrvWest0, T00West, EmptyString, EmptyString),
              DataFlowEntry("Collect", v, t, EmptyString, EmptyString, DrvEast0, EmptyString) }
            : <<v, t>> \in Payloads \X Times }

\* DataFlow lines that carry no Time field
NoCycleEntries ==
    { DataFlowEntry(b, v, Missing, T00East, T01West, EmptyString, EmptyString)
      : <<b, v>> \in {"Send", "Recv"} \X Payloads }

\* round(float(log_entry.get('Time', 0))): a line without Time gets 0; the
\* Time values of the log are whole cycle numbers, which float() and
\* round() leave as they are
TimestampOf(log_entry) == IF log_entry.Time = Missing THEN 0 ELSE log_entry.Time

\* parse_log: src and dst of the operation, by behaviour
OperationOf(log_entry) ==
    [type    |-> log_entry.Behavior,
     data    |-> log_entry.Data,
     src     |-> IF log_entry.Behavior \in {"Recv", "Send"} THEN log_entry.Src
                 ELSE IF log_entry.Behavior = "FeedIn" THEN log_entry.From
                 ELSE EmptyString,
     dst     |-> IF log_entry.Behavior \in {"Recv", "Send"} THEN log_entry.Dst
                 ELSE IF log_entry.Behavior = "FeedIn" THEN log_entry.To
                 ELSE log_entry.From,
     content |-> log_entry]


-----------------------------------------------------------------------------
(* EnhancedLogParser: the per-link FIFO replay *)

\* _update_pending_data, lines 365-377: the flow event appended to
\* data_flow_history
FlowEvent(timestamp, operation, source, target) ==
    [timestamp      |-> timestamp,
     operation_type |-> operation.type,
     data_value     |-> operation.data,
     source         |-> source,
     target         |-> target,
     link_key       |-> <<source, target>>]

\* mutant: the pop tests self.pending_data[link_key] without "link_key in",
\* so that a pop on a link never pushed creates an empty entry
UpdateQueuesCreatingKey(pending, operation_type, link_key, data_value) ==
    IF operation_type \in {"Send", "FeedIn"}
    THEN DictAppend(pending, link_key, data_value)
    ELSE IF DictGet(pending, link_key) # <<>>
    THEN DictPopFirst(pending, link_key)
    ELSE [x \in (DOMAIN pending) \cup {link_key} |-> DictGet(pending, x)]

\* mutant: a pop takes the oldest payload of every queue that has one
UpdateQueuesOnEveryLink(pending, operation_type, link_key, data_value) ==
    IF operation_type \in {"Send", "FeedIn"}
    THEN DictAppend(pending, link_key, data_value)
    ELSE IF link_key \in DOMAIN pending /\ pending[link_key] # <<>>
    THEN [x \in DOMAIN pending |->
             IF pending[x] # <<>> THEN Tail(pending[x]) ELSE pending[x]]
    ELSE pending

\* _update_pending_data, lines 379-387: the queue update of one operation
UpdateQueues(pending, operation_type, link_key, data_value) ==
    IF operation_type \in {"Send", "FeedIn"}
    THEN DictAppend(pending, link_key, data_value)
    ELSE IF operation_type \in {"Recv", "Collect"}
    THEN IF link_key \in DOMAIN pending /\ pending[link_key] # <<>>
         THEN DictPopFirst(pending, link_key)
         ELSE pending
    ELSE pending

\* _update_pending_data: the new <<pending_data, data_flow_history>>
_update_pending_data(pending, history, timestamp, operation) ==
    LET source == _parse_device_position(operation.src)
        target == _parse_device_position(operation.dst)
    IN  IF source = None \/ target = None
        THEN <<pending, history>>
        ELSE <<UpdateQueues(pending, operation.type, <<source, target>>, operation.data),
               Append(history, FlowEvent(timestamp, operation, source, target))>>

\* mutant: the replay takes the events strictly before the query cycle
ReplayEventBefore(temp_pending, event, timestamp) ==
    IF event.timestamp < timestamp
    THEN IF event.operation_type \in {"Send", "FeedIn"}
         THEN DictAppend(temp_pending, event.link_key, event.data_value)
         ELSE IF event.link_key \in DOMAIN temp_pending
                 /\ temp_pending[event.link_key] # <<>>
         THEN DictPopFirst(temp_pending, event.link_key)
         ELSE temp_pending
    ELSE temp_pending

\* mutant: the replay takes every event of the history, whatever its cycle
ReplayEventAll(temp_pending, event, timestamp) ==
    IF event.operation_type \in {"Send", "FeedIn"}
    THEN DictAppend(temp_pending, event.link_key, event.data_value)
    ELSE IF event.link_key \in DOMAIN temp_pending
            /\ temp_pending[event.link_key] # <<>>
    THEN DictPopFirst(temp_pending, event.link_key)
    ELSE temp_pending

\* _get_pending_data_at_timestamp, lines 627-635: one event of the replay
ReplayEvent(temp_pending, event, timestamp) ==
    IF event.timestamp <= timestamp
    THEN IF event.operation_type \in {"Send", "FeedIn"}
         THEN DictAppend(temp_pending, event.link_key, event.data_value)
         ELSE IF event.operation_type \in {"Recv", "Collect"}
         THEN IF event.link_key \in DOMAIN temp_pending
                 /\ temp_pending[event.link_key] # <<>>
              THEN DictPopFirst(temp_pending, event.link_key)
              ELSE temp_pending
         ELSE temp_pending
    ELSE temp_pending

RECURSIVE ReplayHistory(_, _, _, _)
ReplayHistory(history, i, temp_pending, timestamp) ==
    IF i > Len(history) THEN temp_pending
    ELSE ReplayHistory(history, i + 1,
                       ReplayEvent(temp_pending, history[i], timestamp), timestamp)

\* mutant: the replay leaves out the oldest event of the history
PendingOfNewest(history, timestamp) == ReplayHistory(history, 2, EmptyDict, timestamp)

\* _get_pending_data_at_timestamp over a given history
PendingOf(history, timestamp) == ReplayHistory(history, 1, EmptyDict, timestamp)

\* self._get_pending_data_at_timestamp(timestamp)
_get_pending_data_at_timestamp(timestamp) == PendingOf(data_flow_history, timestamp)

\* _extract_device_positions_from_json: the tiles and drivers named by the
\* Src, Dst, From and To fields
FieldsOf(log_entry) == {log_entry.Src, log_entry.Dst, log_entry.From, log_entry.To}
TilesNamed(log_entry) ==
    {<<f.row, f.col>> : f \in {g \in FieldsOf(log_entry) : g.kind = "Tile"}}
DriversNamed(log_entry) ==
    {<<f.direction, f.index>> : f \in {g \in FieldsOf(log_entry) : g.kind = "Driver"}}

\* _update_data_state: a Collect registers the driver of its dst
CollectDriver(operation) ==
    IF operation.type = "Collect" /\ operation.dst.kind = "Driver"
    THEN {<<operation.dst.direction, operation.dst.index>>}
    ELSE {}

NoLink == <<None, None>>

\* the link a log line belongs to: its parsed (source, target), if both parse
LinkOf(log_entry) ==
    LET source == _parse_device_position(OperationOf(log_entry).src)
        target == _parse_device_position(OperationOf(log_entry).dst)
    IN  IF source = None \/ target = None THEN NoLink ELSE <<source, target>>

\* what the claims call the event of a log line: Send/FeedIn push, Recv/Collect pop
EventOf(log_entry) ==
    [cycle |-> TimestampOf(log_entry),
     link  |-> LinkOf(log_entry),
     push  |-> log_entry.Behavior \in {"Send", "FeedIn"},
     data  |-> log_entry.Data]

\* parse_log has not returned yet
NotBuilt == [built |-> FALSE]

\* the structures parse_log derives, with pending at every cycle
Derived(index, history) ==
    [built |-> TRUE, rebuilt |-> FALSE, timestamps |-> index, data_flow_history |-> history,
     pending |-> [timestamp \in Times |-> PendingOf(history, timestamp)]]

\* parse_log, lines 64-129: self.timestamps, self.pending_data and
\* self.data_flow_history after the lines of log_content from the i-th on
RECURSIVE ParseLogFrom(_, _, _)
ParseLogFrom(st, lines, i) ==
    IF i > Len(lines) THEN st
    ELSE LET timestamp == TimestampOf(lines[i])
             operation == OperationOf(lines[i])
             upd == _update_pending_data(st.pending_data, st.data_flow_history,
                                         timestamp, operation)
         IN  ParseLogFrom([timestamps |-> DictAppend(st.timestamps, timestamp, operation),
                           pending_data |-> upd[1],
                           data_flow_history |-> upd[2]], lines, i + 1)

\* parse_log, lines 64-129: the loop body for one DataFlow line
ParseLine(log_entry) ==
    LET timestamp == TimestampOf(log_entry)
        operation == OperationOf(log_entry)
        upd == _update_pending_data(pending_data, data_flow_history, timestamp, operation)
    IN  /\ Len(ingested) < MaxLines
        /\ log_entry.msg = "DataFlow"
        /\ log_entry.Behavior \in {"Recv", "Send", "FeedIn", "Collect"}
        /\ ingested' = Append(ingested, log_entry)
        /\ events' = Append(events, EventOf(log_entry))
        /\ timestamps' = DictAppend(timestamps, timestamp, operation)
        /\ pending_data' = upd[1]
        /\ data_flow_history' = upd[2]
        /\ prev_pending' = pending_data
        /\ device_positions' = device_positions \cup TilesNamed(log_entry)
        /\ driver_positions' = driver_positions \cup DriversNamed(log_entry)
                                   \cup CollectDriver(operation)
        /\ first_build = NotBuilt
        /\ UNCHANGED <<integrity_errors, first_build, resolved>>
        /\ UNCHANGED <<statusVars, graphVars, traceVars, tokenVars, utilVars, ingestVars, toolVars>>

\* the first parse_log(log_content) returns
ParseLogReturns ==
    /\ first_build = NotBuilt
    /\ ingested # <<>>
    /\ first_build' = Derived(timestamps, data_flow_history)
    /\ UNCHANGED <<ingested, events, timestamps, pending_data, data_flow_history,
                   device_positions, driver_positions, prev_pending, integrity_errors,
                   resolved>>
    /\ UNCHANGED <<statusVars, graphVars, traceVars, tokenVars, utilVars, ingestVars, toolVars>>

\* the structures are built again from the same log_content: by
\* parse_log on the same parser, which keeps what __init__ and the first
\* call put in self.timestamps, self.pending_data and
\* self.data_flow_history, or by parse_log on a new EnhancedLogParser
Rebuild(same_parser) ==
    /\ first_build # NotBuilt
    /\ ~first_build.rebuilt
    /\ first_build' = [first_build EXCEPT !.rebuilt = TRUE]
    /\ LET start == IF same_parser
                    THEN [timestamps |-> timestamps, pending_data |-> pending_data,
                          data_flow_history |-> data_flow_history]
                    ELSE [timestamps |-> EmptyDict, pending_data |-> EmptyDict,
                          data_flow_history |-> <<>>]
           st == ParseLogFrom(start, ingested, 1)
       IN  /\ timestamps' = st.timestamps
           /\ pending_data' = st.pending_data
           /\ data_flow_history' = st.data_flow_history
           /\ prev_pending' = pending_data
    /\ UNCHANGED <<ingested, events, device_positions, driver_positions,
                   integrity_errors, resolved>>
    /\ UNCHANGED <<statusVars, graphVars, traceVars, tokenVars, utilVars, ingestVars, toolVars>>

\* _parse_route, lines 239-246 and 265-272: the position of the driver a
\* route names, with self.grid_rows/grid_cols at their defaults
RouteDriver(device_string) ==
    IF device_string.direction = "West"
    THEN <<"driver", device_string.index, -1, "East">>
    ELSE IF device_string.direction = "East"
    THEN <<"driver", device_string.index, DEFAULT_GRID_COLS, "West">>
    ELSE IF device_string.direction = "North"
    THEN <<"driver", DEFAULT_GRID_ROWS, device_string.index, "South">>
    ELSE IF device_string.direction = "South"
    THEN <<"driver", -1, device_string.index, "North">>
    ELSE None

\* _parse_route, lines 285-305: the boundary tile and the driver of a Collect
CollectRoute(device_string) ==
    IF device_string.direction = "West"
    THEN <<<<"tile", device_string.index, 0, "West">>,
           <<"driver", device_string.index, -1, "East">>>>
    ELSE IF device_string.direction = "East"
    THEN <<<<"tile", device_string.index, DEFAULT_GRID_COLS - 1, "East">>,
           <<"driver", device_string.index, DEFAULT_GRID_COLS, "West">>>>
    ELSE IF device_string.direction = "North"
    THEN <<<<"tile", 0, device_string.index, "North">>,
           <<"driver", DEFAULT_GRID_ROWS, device_string.index, "South">>>>
    ELSE IF device_string.direction = "South"
    THEN <<<<"tile", DEFAULT_GRID_ROWS - 1, device_string.index, "South">>,
           <<"driver", -1, device_string.index, "North">>>>
    ELSE <<None, None>>

\* _parse_route, lines 316-333: the driver that feeds a port, and the tile
FeedRoute(device_string) ==
    <<IF device_string.port = "West"
      THEN <<"driver", device_string.row, -1, "East">>
      ELSE IF device_string.port = "East"
      THEN <<"driver", device_string.row, DEFAULT_GRID_COLS, "West">>
      ELSE IF device_string.port = "North"
      THEN <<"driver", DEFAULT_GRID_ROWS, device_string.col, "North">>
      ELSE IF device_string.port = "South"
      THEN <<"driver", -1, device_string.col, "South">>
      ELSE None,
      <<"tile", device_string.row, device_string.col, device_string.port>>>>

\* EnhancedLogParser._parse_route of the route "<route[1]>-><route[2]>", an
\* absent end being the empty string
_parse_route(route) ==
    LET TileOf(device_string) ==
            <<"tile", device_string.row, device_string.col, device_string.port>>
    IN  IF route[1].kind = "Tile" /\ route[2].kind = "Tile"
        THEN <<TileOf(route[1]), TileOf(route[2])>>
        ELSE IF route[1].kind = "Tile" /\ route[2].kind = "Driver"
        THEN <<TileOf(route[1]), RouteDriver(route[2])>>
        ELSE IF route[1].kind = "Driver" /\ route[2].kind = "Tile"
        THEN <<RouteDriver(route[1]), TileOf(route[2])>>
        ELSE IF route[1].kind = "Driver" THEN CollectRoute(route[1])
        ELSE IF route[2].kind = "Driver" THEN CollectRoute(route[2])
        ELSE IF route[1].kind = "Tile" THEN FeedRoute(route[1])
        ELSE IF route[2].kind = "Tile" THEN FeedRoute(route[2])
        ELSE <<None, None>>

\* _get_position_coordinates: the (x, y) of a parsed position is (col, row)
_get_position_coordinates(position) == <<position[3], position[2]>>

\* _draw_drivers, lines 477-491: the (x, y) of the circle of a driver
_draw_drivers(rows, cols, direction, index) ==
    IF direction = "West" THEN <<-1, index>>
    ELSE IF direction = "East" THEN <<cols, index>>
    ELSE IF direction = "North" THEN <<index, -1>>
    ELSE <<index, rows>>

\* utilization_plot.py parse_tile_port: (x, y, port) of "Device.Tile[..][..].Core.."
parse_tile_port(device_str) ==
    IF device_str.kind = "Tile"
    THEN <<device_str.row, device_str.col, device_str.port>>
    ELSE None

\* utilization_plot.py build_port_matrices, lines 142-146: the cell
\* (row, column) of matrices[port][y, x]
PortMatrixCell(parsed) == <<parsed[2], parsed[1]>>

\* no route has been resolved yet
NotResolved == [done |-> FALSE]

\* the (x, y) at which the drawing code puts a device: the circle of
\* _draw_drivers for a driver, the cell of the port matrix for a tile
DrawnAt(device_string) ==
    IF device_string.kind = "Driver"
    THEN _draw_drivers(DEFAULT_GRID_ROWS, DEFAULT_GRID_COLS,
                       device_string.direction, device_string.index)
    ELSE IF device_string.kind = "Tile"
    THEN LET cell == PortMatrixCell(parse_tile_port(device_string))
         IN  <<cell[2], cell[1]>>
    ELSE <<Missing, Missing>>

\* the two ends of a route are resolved by _parse_device_position (as
\* _update_pending_data and _draw_data_arrows do), by _parse_route and by
\* the drawing code
ResolveRoute(route) ==
    /\ ~resolved.done
    /\ resolved' = [done        |-> TRUE,
                    route       |-> route,
                    by_position |-> <<_parse_device_position(route[1]),
                                      _parse_device_position(route[2])>>,
                    by_route    |-> _parse_route(route),
                    drawn       |-> <<DrawnAt(route[1]), DrawnAt(route[2])>>]
    /\ UNCHANGED <<ingested, events, timestamps, pending_data, data_flow_history,
                   device_positions, driver_positions, prev_pending, integrity_errors,
                   first_build>>
    /\ UNCHANGED <<statusVars, graphVars, traceVars, tokenVars, utilVars, ingestVars, toolVars>>

\* EnhancedLogParser.__init__
InitFifoVars ==
    /\ ingested = <<>>
    /\ events = <<>>
    /\ timestamps = EmptyDict
    /\ pending_data = EmptyDict
    /\ data_flow_history = <<>>
    /\ device_positions = {}
    /\ driver_positions = {}
    /\ prev_pending = EmptyDict
    /\ integrity_errors = <<>>
    /\ first_build = NotBuilt
    /\ resolved = NotResolved

NextFifo == \E log_entry \in LogEntries : ParseLine(log_entry)


-----------------------------------------------------------------------------
(* generate_interactive_html_with_trace.py: the dataflow graph and the     *)
(* backward trace                                                          *)

\* node names of the From and To fields, the empty string for a missing one
PENames == {"A", "B", "C"}
GraphCycles == {0, 1}
\* max_depth arguments (the default is 50)
DepthChoices == {0, 1, 2}

TraceEntry(time, from_pe, to_pe) ==
    [msg |-> "DataFlow", Time |-> time, From |-> from_pe, To |-> to_pe,
     Direction |-> "East", Color |-> 0, Data |-> "5", Behavior |-> "Send"]

\* DataFlow lines; a line may lack its From field
TraceEntries ==
    {TraceEntry(t, f, d) : <<t, f, d>> \in GraphCycles \X (PENames \cup {""}) \X PENames}

\* every node a line can name
GraphNodes == {<<t, n, "East", 0>> : <<t, n>> \in GraphCycles \X PENames}

\* build_dataflow_graph, lines 45-48: the line names both ends
NamesBothEnds(event) == event.From # "" /\ event.To # ""
\* mutant: the edge starts at the sender's node of the cycle before
FromNodeOfCycleBefore(event) ==
    <<event.Time - 1, event.From, event.Direction, event.Color>>
FromNode(event) == <<event.Time, event.From, event.Direction, event.Color>>
ToNode(event) == <<event.Time, event.To, event.Direction, event.Color>>

\* build_dataflow_graph, lines 51-59
EdgeInfo(event) ==
    [from_time |-> event.Time, from_pe |-> event.From, to_pe |-> event.To,
     direction |-> event.Direction, channel |-> event.Color,
     data |-> event.Data, behavior |-> event.Behavior]

\* build_dataflow_graph, lines 28-66: the loop body for one line
AddGraphLine(event) ==
    /\ trace_pc = "idle"
    /\ all_events' = Append(all_events, event)
    /\ IF event.msg = "DataFlow" /\ NamesBothEnds(event) /\ event.Time # Missing
       THEN /\ graph' = DictAppend(graph, ToNode(event),
                                   <<FromNode(event), EdgeInfo(event)>>)
            /\ reverse_graph' = DictAppend(reverse_graph, FromNode(event),
                                           <<ToNode(event), EdgeInfo(event)>>)
       ELSE UNCHANGED <<graph, reverse_graph>>
    /\ UNCHANGED traceVars
    /\ UNCHANGED <<fifoVars, statusVars, tokenVars, utilVars, ingestVars, toolVars>>

\* a trace that reads the outgoing edges of the node instead
Outgoing(g, node) == DictGet(reverse_graph, node)

\* trace_backward, line 84: incoming = graph.get(current_node, [])
Incoming(g, node) == DictGet(g, node)

\* a trace that never recognises a node it has been at
NeverVisited(prev_node, seen) == FALSE

\* trace_backward, line 91: prev_node in visited
AlreadyVisited(prev_node, seen) == prev_node \in seen

\* trace_backward, lines 78-81
StartBackward(sink, limit) ==
    /\ trace_pc = "idle"
    /\ trace_pc' = "backward"
    /\ sink_node' = sink
    /\ max_depth' = limit
    /\ path' = <<sink>>
    /\ visited' = {sink}
    /\ current_node' = sink
    /\ depth' = 0
    /\ trace_fn' = "trace_backward"
    /\ UNCHANGED <<source_node, queue>>
    /\ UNCHANGED graphVars
    /\ UNCHANGED <<fifoVars, statusVars, tokenVars, utilVars, ingestVars, toolVars>>

\* trace_backward returns path
ReturnPath ==
    /\ trace_pc' = "done"
    /\ UNCHANGED <<sink_node, max_depth, path, visited, current_node, depth,
                   trace_fn, source_node, queue>>
    /\ UNCHANGED graphVars
    /\ UNCHANGED <<fifoVars, statusVars, tokenVars, utilVars, ingestVars, toolVars>>

\* trace_backward, line 83: the while condition fails
BackwardDepthReached ==
    /\ trace_pc = "backward"
    /\ ~(depth < max_depth)
    /\ ReturnPath

\* trace_backward, lines 84-86: no incoming edge
BackwardNoIncoming ==
    /\ trace_pc = "backward"
    /\ depth < max_depth
    /\ Incoming(graph, current_node) = <<>>
    /\ ReturnPath

\* trace_backward, lines 89-92: the first incoming edge leads to a visited node
BackwardVisited ==
    /\ trace_pc = "backward"
    /\ depth < max_depth
    /\ Incoming(graph, current_node) # <<>>
    /\ AlreadyVisited(Incoming(graph, current_node)[1][1], visited)
    /\ ReturnPath

\* trace_backward, lines 89-97: follow the first incoming edge
BackwardFollow ==
    /\ trace_pc = "backward"
    /\ depth < max_depth
    /\ Incoming(graph, current_node) # <<>>
    /\ LET prev_node == Incoming(graph, current_node)[1][1]
       IN  /\ ~AlreadyVisited(prev_node, visited)
           /\ visited' = visited \cup {prev_node}
           /\ path' = <<prev_node>> \o path
           /\ current_node' = prev_node
           /\ depth' = depth + 1
    /\ UNCHANGED <<trace_pc, sink_node, max_depth, trace_fn, source_node, queue>>
    /\ UNCHANGED graphVars
    /\ UNCHANGED <<fifoVars, statusVars, tokenVars, utilVars, ingestVars, toolVars>>

\* trace_backward, line 99, and trace_forward, line 123: the value returned
\* is the list path, and the list is all the caller receives
TraceResult == [items |-> path]

BackwardStep ==
    \/ BackwardDepthReached
    \/ BackwardNoIncoming
    \/ BackwardVisited
    \/ BackwardFollow

\* the lines of the log before a forward trace: edges among the nodes of
\* one cycle, and a line without its From field
ForwardEntries ==
    {TraceEntry(0, f, d) : <<f, d>> \in PENames \X PENames} \cup {TraceEntry(0, "", "A")}
ForwardSources == {<<0, n, "East", 0>> : n \in PENames}

\* trace_forward, line 113: the nodes of reverse_graph.get(current_node, [])
OutgoingNodes(rg, node) ==
    LET outgoing == DictGet(rg, node)
    IN  [i \in 1..Len(outgoing) |-> outgoing[i][1]]

\* the elements of a set of places, in increasing order
InOrder(places) ==
    [n \in 1..Cardinality(places) |->
        CHOOSE i \in places : Cardinality({j \in places : j <= i}) = n]

\* trace_forward, lines 115-119: the for loop over the outgoing edges
\* appends, in the order of the edges, every node that is not visited yet
\* (a node is visited once its first edge has been taken)
Discover(found, next_nodes) ==
    LET fresh == InOrder({i \in 1..Len(next_nodes) :
                             /\ next_nodes[i] \notin found.visited
                             /\ \A j \in 1..(i - 1) : next_nodes[j] # next_nodes[i]})
        discovered == [n \in 1..Len(fresh) |-> next_nodes[fresh[n]]]
    IN  [visited |-> found.visited \cup {discovered[n] : n \in 1..Len(discovered)},
         path |-> found.path \o discovered,
         queue |-> found.queue \o discovered]

\* trace_forward, lines 106-109
StartForward(source, limit) ==
    /\ trace_pc = "idle"
    /\ trace_pc' = "forward"
    /\ trace_fn' = "trace_forward"
    /\ source_node' = source
    /\ max_depth' = limit
    /\ path' = <<source>>
    /\ visited' = {source}
    /\ queue' = <<source>>
    /\ depth' = 0
    /\ UNCHANGED <<sink_node, current_node>>
    /\ UNCHANGED graphVars
    /\ UNCHANGED <<fifoVars, statusVars, tokenVars, utilVars, ingestVars, toolVars>>

\* trace_forward, lines 111-121: one iteration of the while loop
ForwardExpand ==
    /\ trace_pc = "forward"
    /\ trace_fn = "trace_forward"
    /\ queue # <<>> /\ depth < max_depth
    /\ LET found == Discover([visited |-> visited, path |-> path, queue |-> Tail(queue)],
                             OutgoingNodes(reverse_graph, Head(queue)))
       IN  /\ current_node' = Head(queue)
           /\ visited' = found.visited
           /\ path' = found.path
           /\ queue' = found.queue
    /\ depth' = depth + 1
    /\ UNCHANGED <<trace_pc, trace_fn, source_node, sink_node, max_depth>>
    /\ UNCHANGED graphVars
    /\ UNCHANGED <<fifoVars, statusVars, tokenVars, utilVars, ingestVars, toolVars>>

\* trace_forward, lines 111 and 123, traceForward, lines 198 and 219: the
\* while condition fails and the path is returned
ForwardReturn ==
    /\ trace_pc = "forward"
    /\ ~(queue # <<>> /\ depth < max_depth)
    /\ ReturnPath

\* json.dumps(node) of a Python tuple: a JSON array written with ", "
PyDumps(node) == [array |-> node, separator |-> ", "]
\* JSON.stringify(node) of a JavaScript array: written with ","
JsStringify(node) == [array |-> node, separator |-> ","]
\* JSON.parse(text)
JsonParse(text) == text.array

\* the keys of graph in the order in which build_dataflow_graph created them
RECURSIVE GraphKeys(_)
GraphKeys(log) ==
    IF log = <<>> THEN <<>>
    ELSE LET before == GraphKeys(SubSeq(log, 1, Len(log) - 1))
             event == log[Len(log)]
         IN  IF event.msg = "DataFlow" /\ NamesBothEnds(event)
                /\ \A i \in 1..Len(before) : before[i] # ToNode(event)
             THEN Append(before, ToNode(event))
             ELSE before

\* generate_interactive_html_with_trace, lines 135-144 and 156: graph_json,
\* written into the page as the object dataflowGraph; its properties are
\* enumerated in the order of the keys of graph
DataflowGraphJson ==
    LET keys == GraphKeys(all_events)
    IN  [k \in 1..Len(keys) |->
            [key |-> PyDumps(keys[k]),
             incoming |-> [i \in 1..Len(graph[keys[k]]) |->
                              [from_node |-> graph[keys[k]][i][1],
                               info |-> graph[keys[k]][i][2]]]]]

\* traceForward, lines 202-214: the nodes JSON.parse(key) of the edges whose
\* from_node is the current node, in the order for (key in dataflowGraph),
\* for (edge of incoming)
JsOutgoingNodes(dataflowGraph, currentKey) ==
    LET width == Len(all_events) + 1
        place(k, i) == k * width + i
        matching == {place(k, i) : <<k, i>> \in
                        {<<k, i>> \in (1..Len(dataflowGraph)) \X (1..Len(all_events)) :
                            /\ i <= Len(dataflowGraph[k].incoming)
                            /\ JsStringify(dataflowGraph[k].incoming[i].from_node)
                                   = currentKey}}
        ordered == InOrder(matching)
    IN  [n \in 1..Len(ordered) |-> JsonParse(dataflowGraph[ordered[n] \div width].key)]

\* traceForward, lines 206-212: visited holds the JSON.stringify keys
JsDiscover(found, next_nodes) ==
    LET fresh == InOrder({i \in 1..Len(next_nodes) :
                             /\ JsStringify(next_nodes[i]) \notin found.visited
                             /\ \A j \in 1..(i - 1) : next_nodes[j] # next_nodes[i]})
        discovered == [n \in 1..Len(fresh) |-> next_nodes[fresh[n]]]
    IN  [visited |-> found.visited
                         \cup {JsStringify(discovered[n]) : n \in 1..Len(discovered)},
         path |-> found.path \o discovered,
         queue |-> found.queue \o discovered]

\* traceForward, line 196: const maxDepth = 50
maxDepth == 50

\* traceForward, lines 191-196
StartJsForward(source) ==
    /\ trace_pc = "idle"
    /\ trace_pc' = "forward"
    /\ trace_fn' = "traceForward"
    /\ source_node' = source
    /\ max_depth' = maxDepth
    /\ path' = <<source>>
    /\ visited' = {JsStringify(source)}
    /\ queue' = <<source>>
    /\ depth' = 0
    /\ UNCHANGED <<sink_node, current_node>>
    /\ UNCHANGED graphVars
    /\ UNCHANGED <<fifoVars, statusVars, tokenVars, utilVars, ingestVars, toolVars>>

\* traceForward, lines 198-217: one iteration of the while loop
JsForwardExpand ==
    /\ trace_pc = "forward"
    /\ trace_fn = "traceForward"
    /\ queue # <<>> /\ depth < max_depth
    /\ LET currentKey == JsStringify(Head(queue))
           found == JsDiscover([visited |-> visited, path |-> path, queue |-> Tail(queue)],
                               JsOutgoingNodes(DataflowGraphJson, currentKey))
       IN  /\ current_node' = Head(queue)
           /\ visited' = found.visited
           /\ path' = found.path
           /\ queue' = found.queue
    /\ depth' = depth + 1
    /\ UNCHANGED <<trace_pc, trace_fn, source_node, sink_node, max_depth>>
    /\ UNCHANGED graphVars
    /\ UNCHANGED <<fifoVars, statusVars, tokenVars, utilVars, ingestVars, toolVars>>

ForwardStep ==
    \/ ForwardExpand
    \/ JsForwardExpand
    \/ ForwardReturn

InitGraphVars ==
    /\ all_events = <<>>
    /\ graph = EmptyDict
    /\ reverse_graph = EmptyDict
    /\ trace_pc = "idle"
    /\ sink_node = <<0, "", "", 0>>
    /\ max_depth = 0
    /\ path = <<>>
    /\ visited = {}
    /\ current_node = <<0, "", "", 0>>
    /\ depth = 0
    /\ trace_fn = "none"
    /\ source_node = <<0, "", "", 0>>
    /\ queue = <<>>

-----------------------------------------------------------------------------
(* generate_interactive_html.py: build_token_events                        *)

\* d[k] = v on a dict
DictSet(d, k, v) == [x \in (DOMAIN d) \cup {k} |-> IF x = k THEN v ELSE d[x]]

\* The Time field in halves of a cycle: 0, 0.5, 1, 1.5
HalfCycles == {0, 1, 2, 3}
\* int(time): truncation to the whole cycle
IntOf(halves) == halves \div 2

TokenIds == {1, 2}

TokenFlowEntry(time, x, token_id) ==
    [msg |-> "DataFlow", Time |-> time, X |-> x, Y |-> 0, Behavior |-> "Send",
     Direction |-> "East", Data |-> "5", TokenID |-> token_id]

\* a port of a PEState snapshot
PEPort(token_id, direction) ==
    [token_id |-> token_id, direction |-> direction, data |-> "7"]

PEStateEntry(time, inputs, outputs) ==
    [msg |-> "PEState",
     state |-> [time |-> time, x |-> 0, y |-> 0, inputs |-> inputs, outputs |-> outputs]]

\* the lines of the log: DataFlow lines of a token at any time, a DataFlow
\* line without coordinates, one without token, and PEState snapshots with
\* an input of token 1, an input without token and an output of token 2
TokenEntries ==
    {TokenFlowEntry(t, 0, id) : <<t, id>> \in HalfCycles \X TokenIds}
        \cup {TokenFlowEntry(0, Missing, 1), TokenFlowEntry(1, 0, Missing)}
        \cup {PEStateEntry(t, <<PEPort(1, "West"), PEPort(Missing, "North")>>,
                              <<PEPort(2, "East")>>) : t \in {0, 3}}

\* build_token_events, lines 104-119 and 139-171: the token events
TokenEvent(time, x, y, behavior, direction, data, token_id) ==
    [time |-> time, x |-> x, y |-> y, behavior |-> behavior, direction |-> direction,
     data |-> data, pred |-> TRUE, color |-> Missing, from |-> "", to |-> "",
     token_id |-> token_id]

\* build_token_events, lines 135-171: the token event of a port, for the
\* ports that carry a token_id
PortEvents(state, ports, behavior) ==
    LET withToken == SelectSeq(ports, LAMBDA port : port.token_id # Missing)
    IN  [i \in 1..Len(withToken) |->
            TokenEvent(IntOf(state.time), state.x, state.y, behavior,
                       withToken[i].direction, withToken[i].data, withToken[i].token_id)]

\* build_token_events, lines 87-171: the token events of one line, in the
\* order in which they are appended
TokenEventsOfLine(event) ==
    IF event.msg = "DataFlow"
    THEN IF event.Time # Missing /\ event.X # Missing /\ event.Y # Missing
            /\ event.TokenID # Missing
         THEN <<TokenEvent(IntOf(event.Time), event.X, event.Y, event.Behavior,
                           event.Direction, event.Data, event.TokenID)>>
         ELSE <<>>
    ELSE IF event.msg = "PEState"
         THEN IF event.state.time # Missing /\ event.state.x # Missing
                 /\ event.state.y # Missing
              THEN PortEvents(event.state, event.state.inputs, "PE_IN")
                       \o PortEvents(event.state, event.state.outputs, "PE_OUT")
              ELSE <<>>
         ELSE <<>>

\* build_token_events, lines 121-123: key "time,x,y,direction,behavior"
PointKey(token_event) ==
    <<token_event.time, token_event.x, token_event.y, token_event.direction,
      token_event.behavior>>

\* build_token_events, lines 119-123: token_events[token_id].append(token_event)
\* and point_index[key] = token_id
RECURSIVE IndexTokenEvents(_, _, _)
IndexTokenEvents(events_by_token, index, token_event_list) ==
    IF token_event_list = <<>>
    THEN <<events_by_token, index>>
    ELSE LET token_event == Head(token_event_list)
         IN  IndexTokenEvents(
                 DictAppend(events_by_token, token_event.token_id, token_event),
                 DictSet(index, PointKey(token_event), token_event.token_id),
                 Tail(token_event_list))

\* build_token_events, lines 80-186: the loop over the lines of the file
RECURSIVE ReadTokenLog(_, _, _)
ReadTokenLog(events_by_token, index, lines) ==
    IF lines = <<>>
    THEN <<events_by_token, index>>
    ELSE LET read == IndexTokenEvents(events_by_token, index,
                                      TokenEventsOfLine(Head(lines)))
         IN  ReadTokenLog(read[1], read[2], Tail(lines))

\* a sort that leaves the list in arrival order
InsertAtEnd(sorted, token_event) == Append(sorted, token_event)

\* list.sort(key=lambda e: e['time']) is stable: an event goes behind the
\* events whose time is not larger
InsertByTime(sorted, token_event) ==
    LET k == Cardinality({i \in 1..Len(sorted) : sorted[i].time <= token_event.time})
    IN  SubSeq(sorted, 1, k) \o <<token_event>> \o SubSeq(sorted, k + 1, Len(sorted))

\* build_token_events, line 195: token_events[token_id].sort(key=...)
RECURSIVE SortByTime(_)
SortByTime(token_event_list) ==
    IF token_event_list = <<>>
    THEN <<>>
    ELSE InsertByTime(SortByTime(SubSeq(token_event_list, 1, Len(token_event_list) - 1)),
                      token_event_list[Len(token_event_list)])

\* build_token_events, lines 64-198
build_token_events(lines) ==
    LET read == ReadTokenLog(EmptyDict, EmptyDict, lines)
    IN  <<[token_id \in DOMAIN read[1] |-> SortByTime(read[1][token_id])], read[2]>>

\* the simulator writes one more line to the log file
WriteTokenLine(event) ==
    /\ ~token_built
    /\ Len(token_log) < MaxTokenLines
    /\ token_log' = Append(token_log, event)
    /\ UNCHANGED <<token_built, token_events, point_index>>
    /\ UNCHANGED <<fifoVars, statusVars, graphVars, traceVars, utilVars, ingestVars, toolVars>>

\* line 2419: token_events_dict, point_index_dict = build_token_events(log_file)
BuildTokenEvents ==
    /\ ~token_built
    /\ token_built' = TRUE
    /\ token_events' = build_token_events(token_log)[1]
    /\ point_index' = build_token_events(token_log)[2]
    /\ UNCHANGED token_log
    /\ UNCHANGED <<fifoVars, statusVars, graphVars, traceVars, utilVars, ingestVars, toolVars>>

InitTokenVars ==
    /\ token_log = <<>>
    /\ token_built = FALSE
    /\ token_events = EmptyDict
    /\ point_index = EmptyDict

-----------------------------------------------------------------------------
(* test/histogram/analyze_all.py: per-PE utilization                       *)

UtilCycles == {0, 1, 2}

\* entry.get('X', -1), entry.get('Y', -1) of a line without coordinates
NoCoordinate == -1

\* the file has no 'Total cycles:' line
NoTrailer == -1
\* the 'Total cycles:' line at the end of the file, when there is one
Trailers == {NoTrailer, 0, 10}

UtilEntry(msg, behavior, x, y, time) ==
    [msg |-> msg, Behavior |-> behavior, X |-> x, Y |-> y, Time |-> time,
     Direction |-> "East"]

\* the lines of the log: for PE(0,0) an executed instruction, DataFlow Send
\* and Recv, Memory WriteMemory and Memory Send at every cycle; an
\* instruction of PE(1,0); a DataFlow line without coordinates
UtilEntries ==
    UNION { { UtilEntry("Inst_Exec", "", 0, 0, t),
              UtilEntry("DataFlow", "Send", 0, 0, t),
              UtilEntry("DataFlow", "Recv", 0, 0, t),
              UtilEntry("Memory", "WriteMemory", 0, 0, t),
              UtilEntry("Memory", "Send", 0, 0, t) } : t \in UtilCycles }
        \cup { UtilEntry("Inst_Exec", "", 1, 0, 0),
               UtilEntry("DataFlow", "Send", NoCoordinate, NoCoordinate, 2) }

\* pe_key = f"PE({x},{y})"
PEKey(x, y) == <<"PE", x, y>>
\* the other end of a link key: "Memory" or a direction
LinkEnd(name) == <<name, NoCoordinate, NoCoordinate>>

\* analyze_all, lines 161-175: the line is recorded in exec_events
IsExecEvent(entry) ==
    \/ entry.msg \in {"Inst_Exec", "PHI_Exec", "GPRED_Exec", "NOT_Exec"}
    \/ entry.msg = "Memory" /\ entry.Behavior \in {"WriteMemory", "ReadMemory"}
    \/ entry.msg = "DataFlow" /\ entry.Behavior \in {"Send", "Recv"}

\* analyze_all, lines 152-179: pe_stats[pe_key] is created by any line with
\* coordinates, exec_events grows by the time of an execution event
UpdatePEStats(stats, entry) ==
    IF entry.X >= 0 /\ entry.Y >= 0
    THEN LET pe_key == PEKey(entry.X, entry.Y)
         IN  IF IsExecEvent(entry)
             THEN DictAppend(stats, pe_key, entry.Time)
             ELSE [k \in (DOMAIN stats) \cup {pe_key} |-> DictGet(stats, k)]
    ELSE stats

\* analyze_all, lines 181-203: the link of a Memory or DataFlow line and the
\* list it is appended to
LinkEventOf(entry) ==
    IF entry.msg = "Memory"
    THEN IF entry.Behavior \in {"Send", "WriteMemory"}
         THEN <<<<PEKey(entry.X, entry.Y), LinkEnd("Memory")>>, "send_events">>
         ELSE IF entry.Behavior \in {"Recv", "ReadMemory"}
              THEN <<<<LinkEnd("Memory"), PEKey(entry.X, entry.Y)>>, "recv_events">>
              ELSE <<>>
    ELSE IF entry.msg = "DataFlow" /\ entry.X >= 0 /\ entry.Y >= 0
         THEN IF entry.Behavior = "Send"
              THEN <<<<PEKey(entry.X, entry.Y), LinkEnd(entry.Direction)>>, "send_events">>
              ELSE IF entry.Behavior = "Recv"
                   THEN <<<<LinkEnd(entry.Direction), PEKey(entry.X, entry.Y)>>, "recv_events">>
                   ELSE <<>>
         ELSE <<>>

NoLinkEvents == [send_events |-> <<>>, recv_events |-> <<>>]

UpdateLinkStats(stats, entry) ==
    LET link_event == LinkEventOf(entry)
    IN  IF link_event = <<>>
        THEN stats
        ELSE LET link_key == link_event[1]
                 old == IF link_key \in DOMAIN stats THEN stats[link_key] ELSE NoLinkEvents
             IN  DictSet(stats, link_key,
                         [old EXCEPT ![link_event[2]] = Append(@, entry.Time)])

\* analyze_all, lines 136-276: the loop over the lines of the file
RECURSIVE ReadUtilLog(_, _, _, _)
ReadUtilLog(pe, links, latest, lines) ==
    IF lines = <<>>
    THEN [pe_stats |-> pe, link_stats |-> links, max_time |-> latest]
    ELSE LET entry == Head(lines)
         IN  ReadUtilLog(UpdatePEStats(pe, entry), UpdateLinkStats(links, entry),
                         IF entry.Time > latest THEN entry.Time ELSE latest,
                         Tail(lines))

\* analyze_all, lines 278-288: int(max_time) + 1 unless the file ends with
\* a 'Total cycles:' line
TotalCyclesOf(latest, trailer) == IF trailer = NoTrailer THEN latest + 1 ELSE trailer

\* a fraction num / den, den > 0
Ratio(num, den) == [num |-> num, den |-> den]

\* generate_pe_heatmap, lines 299-300: len(set(pe['exec_events']))
ActiveCycles(exec_events) == Cardinality({exec_events[i] : i \in 1..Len(exec_events)})

\* generate_pe_heatmap, line 301:
\* min((active_cycles / total_cycles * 100) if total_cycles > 0 else 0, 100.0)
Utilization(active_cycles, total) ==
    IF total > 0
    THEN IF active_cycles * 100 > 100 * total
         THEN Ratio(100, 1)
         ELSE Ratio(active_cycles * 100, total)
    ELSE Ratio(0, 1)

\* a Reason text, and the word re.search(r'Port\s+(\w+)', reason) finds in
\* it ("" when the text names no port)
Reason(text, port) == [text |-> text, port |-> port]

BPEntry(msg, x, y, time, direction, type, reason) ==
    [msg |-> msg, Behavior |-> "", X |-> x, Y |-> y, Time |-> time,
     Direction |-> direction, Type |-> type, Reason |-> reason]

\* the lines of a log with stalls: Backpressure lines of PE(0,0) on its
\* East port at cycles 0 and 2 and one without direction at cycle 0, one of
\* PE(1,0), one without coordinates; the old-format lines InstGroup_Blocked
\* and CheckFlags_Failed; an executed instruction
BPEntries ==
    { BPEntry("Backpressure", 0, 0, 0, "East", "SendFailed", Reason("busy", "")),
      BPEntry("Backpressure", 0, 0, 0, "", "RecvSkipped", Reason("skipped", "")),
      BPEntry("Backpressure", 0, 0, 2, "East", "SendFailed", Reason("busy", "")),
      BPEntry("Backpressure", 1, 0, 0, "West", "SendFailed", Reason("busy", "")),
      BPEntry("Backpressure", NoCoordinate, NoCoordinate, 2, "East", "SendFailed",
              Reason("busy", "")),
      BPEntry("InstGroup_Blocked", 0, 0, 2, "", "", Reason("Unknown", "")),
      BPEntry("CheckFlags_Failed", 0, 0, 0, "", "",
              Reason("Port South[R] not ready", "South")),
      BPEntry("Inst_Exec", 0, 0, 2, "", "", Reason("", "")) }

\* port_key = f"PE({x},{y}):{direction}"
PortKey(x, y, direction) == <<"PE", x, y, direction>>

\* d[k].add(v) on a defaultdict(set)
SetDictAdd(d, k, v) ==
    [x \in (DOMAIN d) \cup {k} |->
        IF x = k THEN (IF k \in DOMAIN d THEN d[k] ELSE {}) \cup {v} ELSE d[x]]

\* d[k] += 1 on a defaultdict(int)
CountDictAdd(d, k) ==
    [x \in (DOMAIN d) \cup {k} |->
        IF x = k THEN (IF k \in DOMAIN d THEN d[k] ELSE 0) + 1 ELSE d[x]]

\* the value pe_backpressure creates for a new key
NoPEBackpressure == [total_cycles |-> {}, by_type |-> EmptyDict, by_reason |-> EmptyDict]
\* the value port_backpressure creates for a new key
NoPortBackpressure ==
    [total_cycles |-> {}, by_type |-> EmptyDict, by_direction |-> EmptyDict]

\* analyze_all, lines 243-249: the type recorded for an old-format line
OldFormatType(msg) ==
    IF msg = "InstGroup_Blocked" THEN "InstGroupBlocked"
    ELSE IF msg = "InstGroup_NotRun" THEN "InstGroupNotRun"
    ELSE "CheckFlagsFailed"

\* analyze_all, lines 265-271: the reason counted for an old-format line
OldFormatReason(entry) ==
    IF entry.Reason.text = "Unknown"
    THEN IF entry.msg = "InstGroup_Blocked" THEN "CheckFlags returned false"
         ELSE IF entry.msg = "InstGroup_NotRun"
         THEN "CheckFlags returned false for all operations"
         ELSE "Unknown"
    ELSE entry.Reason.text

\* pe_backpressure[pe_key]: total_cycles.add, by_type[..].add, by_reason[..] += 1
RecordPEBackpressure(stats, pe_key, cycle, bp_type, reason) ==
    LET old == IF pe_key \in DOMAIN stats THEN stats[pe_key] ELSE NoPEBackpressure
    IN  DictSet(stats, pe_key,
                [total_cycles |-> old.total_cycles \cup {cycle},
                 by_type |-> SetDictAdd(old.by_type, bp_type, cycle),
                 by_reason |-> CountDictAdd(old.by_reason, reason)])

\* analyze_all, lines 207-219 and 241-272: pe_backpressure after one line
UpdatePEBackpressure(stats, entry) ==
    IF entry.msg = "Backpressure"
    THEN IF entry.X >= 0 /\ entry.Y >= 0
         THEN RecordPEBackpressure(stats, PEKey(entry.X, entry.Y), entry.Time,
                                   entry.Type, entry.Reason.text)
         ELSE stats
    ELSE IF entry.msg \in {"InstGroup_Blocked", "InstGroup_NotRun", "CheckFlags_Failed"}
    THEN IF entry.X >= 0 /\ entry.Y >= 0
         THEN RecordPEBackpressure(stats, PEKey(entry.X, entry.Y), entry.Time,
                                   OldFormatType(entry.msg), OldFormatReason(entry))
         ELSE stats
    ELSE stats

\* port_backpressure[port_key]: the three sets get the cycle
RecordPortBackpressure(stats, port_key, cycle, bp_type, direction) ==
    LET old == IF port_key \in DOMAIN stats THEN stats[port_key] ELSE NoPortBackpressure
    IN  DictSet(stats, port_key,
                [total_cycles |-> old.total_cycles \cup {cycle},
                 by_type |-> SetDictAdd(old.by_type, bp_type, cycle),
                 by_direction |-> SetDictAdd(old.by_direction, direction, cycle)])

\* analyze_all, lines 221-238 and 251-263: port_backpressure after one line;
\* the second look at entry.get('Direction', '') of lines 230-238 finds the
\* same empty or 'Unknown' value and records nothing
UpdatePortBackpressure(stats, entry) ==
    IF entry.msg = "Backpressure"
    THEN IF entry.X >= 0 /\ entry.Y >= 0
            /\ entry.Direction # "" /\ entry.Direction # "Unknown"
         THEN RecordPortBackpressure(stats, PortKey(entry.X, entry.Y, entry.Direction),
                                     entry.Time, entry.Type, entry.Direction)
         ELSE stats
    ELSE IF entry.msg = "CheckFlags_Failed"
    THEN IF entry.X >= 0 /\ entry.Y >= 0 /\ entry.Reason.port # ""
         THEN RecordPortBackpressure(stats, PortKey(entry.X, entry.Y, entry.Reason.port),
                                     entry.Time, "CheckFlagsFailed", entry.Reason.port)
         ELSE stats
    ELSE stats

\* analyze_all, lines 136-276: the backpressure statistics of the file
RECURSIVE ReadBackpressure(_, _, _)
ReadBackpressure(pe, port, lines) ==
    IF lines = <<>>
    THEN [pe_backpressure |-> pe, port_backpressure |-> port]
    ELSE ReadBackpressure(UpdatePEBackpressure(pe, Head(lines)),
                          UpdatePortBackpressure(port, Head(lines)), Tail(lines))

\* sum of the values of a defaultdict(int)
RECURSIVE SumOfCounts(_)
SumOfCounts(d) ==
    IF DOMAIN d = {} THEN 0
    ELSE LET k == CHOOSE x \in DOMAIN d : TRUE
         IN  d[k] + SumOfCounts([x \in (DOMAIN d) \ {k} |-> d[x]])

\* mutant: the number of backpressure events, sum(stats['by_reason'].values())
BackpressureEvents(stats) == SumOfCounts(stats.by_reason)

\* generate_backpressure_heatmap, line 379: len(stats['total_cycles'])
BackpressureCycles(stats) == Cardinality(stats.total_cycles)

\* generate_backpressure_heatmap, line 380:
\* (backpressure_cycles / total_cycles * 100) if total_cycles > 0 else 0
BackpressureRate(backpressure_cycles, total) ==
    IF total > 0 THEN Ratio(backpressure_cycles * 100, total) ELSE Ratio(0, 1)

\* the simulator writes one more line to the log file
WriteUtilLine(entry) ==
    /\ util_pc = "log"
    /\ Len(util_log) < MaxUtilLines
    /\ util_log' = Append(util_log, entry)
    /\ UNCHANGED <<util_pc, pe_stats, link_stats, max_time, total_cycles, utilization,
                   backpressureVars>>
    /\ UNCHANGED <<fifoVars, statusVars, graphVars, traceVars, tokenVars, ingestVars, toolVars>>

\* analyze_all, lines 93-290
AnalyzeAll(trailer) ==
    /\ util_pc = "log"
    /\ util_pc' = "analyzed"
    /\ LET read == ReadUtilLog(EmptyDict, EmptyDict, 0, util_log)
       IN  /\ pe_stats' = read.pe_stats
           /\ link_stats' = read.link_stats
           /\ max_time' = read.max_time
           /\ total_cycles' = TotalCyclesOf(read.max_time, trailer)
    /\ LET read == ReadBackpressure(EmptyDict, EmptyDict, util_log)
       IN  /\ pe_backpressure' = read.pe_backpressure
           /\ port_backpressure' = read.port_backpressure
    /\ UNCHANGED <<util_log, utilization, backpressure_rate>>
    /\ UNCHANGED <<fifoVars, statusVars, graphVars, traceVars, tokenVars, ingestVars, toolVars>>

\* generate_pe_heatmap, lines 296-301
GeneratePEHeatmap ==
    /\ util_pc = "analyzed"
    /\ util_pc' = "plotted"
    /\ utilization' = [pe_key \in DOMAIN pe_stats |->
                          Utilization(ActiveCycles(pe_stats[pe_key]), total_cycles)]
    /\ UNCHANGED <<util_log, pe_stats, link_stats, max_time, total_cycles,
                   backpressureVars>>
    /\ UNCHANGED <<fifoVars, statusVars, graphVars, traceVars, tokenVars, ingestVars, toolVars>>

\* generate_backpressure_heatmap, lines 376-383
GenerateBackpressureHeatmap ==
    /\ util_pc = "analyzed"
    /\ util_pc' = "backpressure plotted"
    /\ backpressure_rate' =
           [pe_key \in DOMAIN pe_backpressure |->
               BackpressureRate(BackpressureCycles(pe_backpressure[pe_key]),
                                total_cycles)]
    /\ UNCHANGED <<util_log, pe_stats, link_stats, max_time, total_cycles, utilization,
                   pe_backpressure, port_backpressure>>
    /\ UNCHANGED <<fifoVars, statusVars, graphVars, traceVars, tokenVars, ingestVars, toolVars>>

InitUtilVars ==
    /\ util_log = <<>>
    /\ util_pc = "log"
    /\ pe_stats = EmptyDict
    /\ link_stats = EmptyDict
    /\ max_time = 0
    /\ total_cycles = 0
    /\ utilization = EmptyDict
    /\ pe_backpressure = EmptyDict
    /\ port_backpressure = EmptyDict
    /\ backpressure_rate = EmptyDict

-----------------------------------------------------------------------------
(* The parsers of a raw file: CGRAStateExporter.parse_log,                 *)
(* build_dataflow_graph_for_tracing, build_dataflow_graph and              *)
(* CGRADebugConsole._load_log. A line of the file is a JSON object, a JSON *)
(* value that is no object (the list []), or text that is no JSON.         *)

\* longest raw file
MaxRawLines == 3

ObjectLine(entry) == [line |-> "object", value |-> entry]
ArrayLine == [line |-> "array"]
TextLine == [line |-> "not json"]

\* json.loads(line) raises json.JSONDecodeError
RaisesJSONDecodeError(line) == line.line = "not json"
\* json.loads(line): the dict of an object, or the list
JsonLoads(line) == IF line.line = "object" THEN line.value ELSE [array |-> <<>>]
\* event.get raises AttributeError: a list has no get
RaisesAttributeError(line) == line.line = "array"

RawEntry(msg, time, x, y, from_pe, to_pe) ==
    [msg |-> msg, Time |-> time, X |-> x, Y |-> y, From |-> from_pe, To |-> to_pe,
     Direction |-> "East", Color |-> 0, Data |-> "5", Behavior |-> "Send"]

\* the objects of the file: a DataFlow line of PE(0,0) at cycle 0, a
\* Backpressure line of PE(0,0) at cycle 2, an Inst_Exec line without Time,
\* and a DataFlow line at cycle 2 without X and Y
RawEntries ==
    { RawEntry("DataFlow", 0, 0, 0, "A", "B"),
      RawEntry("Backpressure", 2, 0, 0, "", ""),
      RawEntry("Inst_Exec", Missing, 0, 0, "", ""),
      RawEntry("DataFlow", 2, Missing, Missing, "B", "C") }

RawLines == {ObjectLine(entry) : entry \in RawEntries} \cup {ArrayLine, TextLine}

Max(a, b) == IF a >= b THEN a ELSE b

\* d[k1][k2].append(v) on defaultdict(lambda: defaultdict(list))
NestedAppend(d, k1, k2, v) ==
    DictSet(d, k1, DictAppend(IF k1 \in DOMAIN d THEN d[k1] ELSE EmptyDict, k2, v))

\* CGRAStateExporter.parse_log, lines 23-33: the loop body for one line;
\* only json.JSONDecodeError is caught
ExporterParseLine(st, line) ==
    IF st.raised \/ RaisesJSONDecodeError(line) THEN st
    ELSE IF RaisesAttributeError(line) THEN [st EXCEPT !.raised = TRUE]
    ELSE LET entry == JsonLoads(line)
             time == entry.Time
         IN  IF time # Missing
             THEN [st EXCEPT !.max_cycle = Max(st.max_cycle, time),
                             !.events_by_cycle =
                                 NestedAppend(@, time, entry.msg, entry)]
             ELSE st

RECURSIVE ExporterParseLines(_, _, _)
ExporterParseLines(st, lines, i) ==
    IF i > Len(lines) THEN st
    ELSE ExporterParseLines(ExporterParseLine(st, lines[i]), lines, i + 1)

\* CGRAStateExporter.__init__ and parse_log
ExporterParseLog(lines) ==
    ExporterParseLines([events_by_cycle |-> EmptyDict, max_cycle |-> 0,
                        raised |-> FALSE], lines, 1)

\* str(...)
PyStr(v) == [str |-> v]

\* build_dataflow_graph_for_tracing, lines 28-55: the loop body for one
\* line; the inner handler catches json.JSONDecodeError only
TracingLine(st, line) ==
    IF st.raised \/ RaisesJSONDecodeError(line) THEN st
    ELSE IF RaisesAttributeError(line) THEN [st EXCEPT !.raised = TRUE]
    ELSE LET event == JsonLoads(line)
         IN  IF event.msg = "DataFlow" /\ NamesBothEnds(event) /\ event.Time # Missing
             THEN LET to_node_key ==
                          <<event.Time, event.To, event.Direction, PyStr(event.Color)>>
                      from_node ==
                          <<event.Time, event.From, event.Direction, PyStr(event.Color)>>
                      edge_info ==
                          [data |-> PyStr(event.Data), behavior |-> event.Behavior]
                  IN  [st EXCEPT !.graph =
                                     DictAppend(@, to_node_key, <<from_node, edge_info>>)]
             ELSE st

RECURSIVE TracingLines(_, _, _)
TracingLines(st, lines, i) ==
    IF i > Len(lines) THEN st
    ELSE TracingLines(TracingLine(st, lines[i]), lines, i + 1)

\* build_dataflow_graph_for_tracing: the outer handler catches every
\* exception and returns {}
build_dataflow_graph_for_tracing(lines) ==
    LET st == TracingLines([graph |-> EmptyDict, raised |-> FALSE], lines, 1)
    IN  IF st.raised THEN EmptyDict ELSE st.graph

\* build_dataflow_graph, lines 28-66: the loop body for one line; the line
\* is appended to all_events before its fields are read
LoaderLine(st, line) ==
    IF st.raised \/ RaisesJSONDecodeError(line) THEN st
    ELSE LET event == JsonLoads(line)
             appended == [st EXCEPT !.all_events = Append(@, event)]
         IN  IF RaisesAttributeError(line) THEN [appended EXCEPT !.raised = TRUE]
             ELSE IF event.msg = "DataFlow" /\ NamesBothEnds(event)
                     /\ event.Time # Missing
             THEN [appended EXCEPT
                       !.graph = DictAppend(@, ToNode(event),
                                            <<FromNode(event), EdgeInfo(event)>>),
                       !.reverse_graph = DictAppend(@, FromNode(event),
                                                    <<ToNode(event), EdgeInfo(event)>>)]
             ELSE appended

RECURSIVE LoaderLines(_, _, _)
LoaderLines(st, lines, i) ==
    IF i > Len(lines) THEN st
    ELSE LoaderLines(LoaderLine(st, lines[i]), lines, i + 1)

build_dataflow_graph(lines) ==
    LoaderLines([graph |-> EmptyDict, reverse_graph |-> EmptyDict,
                 all_events |-> <<>>, raised |-> FALSE], lines, 1)

\* CGRADebugConsole._load_log, lines 37-48: the loop body for one line; the
\* line is appended to self.events before its Time is read, and the bare
\* except catches every exception
\* mutant: the event is stored under the largest cycle seen so far
ConsoleLineUnderMaxCycle(st, line) ==
    IF RaisesJSONDecodeError(line) THEN st
    ELSE LET event == JsonLoads(line)
             appended == [st EXCEPT !.events = Append(@, event)]
         IN  IF RaisesAttributeError(line) THEN appended
             ELSE IF event.Time # Missing
             THEN [appended EXCEPT
                       !.max_cycle = Max(st.max_cycle, event.Time),
                       !.events_by_cycle =
                           DictAppend(@, Max(st.max_cycle, event.Time), event)]
             ELSE appended

ConsoleLine(st, line) ==
    IF RaisesJSONDecodeError(line) THEN st
    ELSE LET event == JsonLoads(line)
             appended == [st EXCEPT !.events = Append(@, event)]
         IN  IF RaisesAttributeError(line) THEN appended
             ELSE IF event.Time # Missing
             THEN [appended EXCEPT
                       !.max_cycle = Max(st.max_cycle, event.Time),
                       !.events_by_cycle = DictAppend(@, event.Time, event)]
             ELSE appended

RECURSIVE ConsoleLines(_, _, _)
ConsoleLines(st, lines, i) ==
    IF i > Len(lines) THEN st
    ELSE ConsoleLines(ConsoleLine(st, lines[i]), lines, i + 1)

\* CGRADebugConsole.__init__ and _load_log
_load_log(lines) ==
    ConsoleLines([events |-> <<>>, events_by_cycle |-> EmptyDict, max_cycle |-> 0],
                 lines, 1)

\* generate_interactive_html, lines 251-257: the locals before the loop
NoHtmlIndex ==
    [events_by_cycle |-> EmptyDict, pestate_by_cycle |-> EmptyDict, max_cycle |-> 0,
     cores |-> {}, has_pestate |-> FALSE]

\* generate_interactive_html, lines 264-288: the loop body for one line;
\* every exception is caught by the bare except
HtmlLine(st, line) ==
    IF RaisesJSONDecodeError(line) \/ RaisesAttributeError(line) THEN st
    ELSE LET event == JsonLoads(line)
         IN  IF event.msg = "PEState"
             THEN LET state == event.state
                      marked == [st EXCEPT !.has_pestate = TRUE]
                  IN  IF state.x # Missing /\ state.y # Missing
                      THEN [marked EXCEPT
                                !.max_cycle = Max(st.max_cycle, state.time),
                                !.cores = @ \cup {<<state.x, state.y>>},
                                !.pestate_by_cycle =
                                    DictSet(@, state.time,
                                            DictSet(IF state.time \in DOMAIN @
                                                    THEN @[state.time] ELSE EmptyDict,
                                                    <<state.x, state.y>>, state))]
                      ELSE marked
             ELSE IF event.Time # Missing
             THEN [st EXCEPT
                       !.max_cycle = Max(st.max_cycle, event.Time),
                       !.events_by_cycle = DictAppend(@, event.Time, event),
                       !.cores = IF event.X # Missing /\ event.Y # Missing
                                 THEN @ \cup {<<event.X, event.Y>>} ELSE @]
             ELSE st

RECURSIVE HtmlLines(_, _, _)
HtmlLines(st, lines, i) ==
    IF i > Len(lines) THEN st
    ELSE HtmlLines(HtmlLine(st, lines[i]), lines, i + 1)

\* generate_interactive_html(log_file, output_file): the parsing loop
GenerateInteractiveHtml ==
    /\ html_pc = "new"
    /\ html_pc' = "parsed"
    /\ html_index' = HtmlLines(NoHtmlIndex, raw_log, 1)
    /\ UNCHANGED <<raw_log, exporterVars, tracing_pc, tracing_graph, loader_pc, loaded,
                   consoleVars>>
    /\ UNCHANGED <<fifoVars, statusVars, graphVars, traceVars, tokenVars, utilVars,
                   toolVars>>

\* a line is written to the file before any tool reads it
WriteRawLine(line) ==
    /\ exporter_pc = "new" /\ tracing_pc = "new" /\ loader_pc = "new"
    /\ console_pc = "new" /\ html_pc = "new"
    /\ Len(raw_log) < MaxRawLines
    /\ raw_log' = Append(raw_log, line)
    /\ UNCHANGED <<exporterVars, tracing_pc, tracing_graph, loader_pc, loaded, htmlVars,
                   consoleVars>>
    /\ UNCHANGED <<fifoVars, statusVars, graphVars, traceVars, tokenVars, utilVars,
                   toolVars>>

\* exporter = CGRAStateExporter(log_file); exporter.parse_log()
ParseLog ==
    /\ exporter_pc = "new"
    /\ LET st == ExporterParseLog(raw_log)
       IN  /\ exporter_pc' = IF st.raised THEN "raised" ELSE "parsed"
           /\ events_by_cycle' = st.events_by_cycle
           /\ max_cycle' = st.max_cycle
    /\ UNCHANGED csv_rows
    /\ UNCHANGED <<raw_log, tracing_pc, tracing_graph, loader_pc, loaded, htmlVars, consoleVars>>
    /\ UNCHANGED <<fifoVars, statusVars, graphVars, traceVars, tokenVars, utilVars,
                   toolVars>>

\* export_core_activity_csv, lines 40-48: cores
StoredCores(by_cycle) ==
    UNION { UNION { { <<by_cycle[cycle][msg][i].X, by_cycle[cycle][msg][i].Y>> :
                        i \in {j \in 1..Len(by_cycle[cycle][msg]) :
                                  /\ by_cycle[cycle][msg][j].X # Missing
                                  /\ by_cycle[cycle][msg][j].Y # Missing} }
                    : msg \in DOMAIN by_cycle[cycle] }
            : cycle \in DOMAIN by_cycle }

\* self.events_by_cycle[cycle] on the defaultdict: the lookup of a missing
\* cycle stores an empty defaultdict(list) under it
LookupCreating(by_cycle, cycles) ==
    [cycle \in (DOMAIN by_cycle) \cup cycles |->
        IF cycle \in DOMAIN by_cycle THEN by_cycle[cycle] ELSE EmptyDict]

\* export_core_activity_csv, lines 72-106: the Status column of (x, y) in
\* the row of cycle
RowStatus(by_cycle, core, cycle) ==
    LET cycle_events == IF cycle \in DOMAIN by_cycle THEN by_cycle[cycle] ELSE EmptyDict
        inst == DictGet(cycle_events, "InstExec")
        backp == DictGet(cycle_events, "Backpressure")
                     \o DictGet(cycle_events, "InstGroup_Blocked")
        mine(e) == e.X = core[1] /\ e.Y = core[2]
    IN  IF \E i \in 1..Len(backp) : mine(backp[i]) THEN "BLOCKED"
        ELSE IF \E i \in 1..Len(inst) : mine(inst[i]) THEN "EXEC"
        ELSE "IDLE"

\* exporter.export_core_activity_csv(): the rows are written, and every
\* cycle of range(self.max_cycle + 1) is looked up once per core
ExportCoreActivityCsv ==
    /\ exporter_pc = "parsed"
    /\ exporter_pc' = "exported"
    /\ LET cores == StoredCores(events_by_cycle)
       IN  /\ csv_rows' = [k \in cores \X (0..max_cycle) |->
                              RowStatus(events_by_cycle, k[1], k[2])]
           /\ events_by_cycle' =
                  IF cores = {} THEN events_by_cycle
                  ELSE LookupCreating(events_by_cycle, 0..max_cycle)
    /\ UNCHANGED max_cycle
    /\ UNCHANGED <<raw_log, tracing_pc, tracing_graph, loader_pc, loaded, htmlVars, consoleVars>>
    /\ UNCHANGED <<fifoVars, statusVars, graphVars, traceVars, tokenVars, utilVars,
                   toolVars>>

\* dataflow_graph = build_dataflow_graph_for_tracing(log_file)
BuildGraphForTracing ==
    /\ tracing_pc = "new"
    /\ tracing_pc' = "returned"
    /\ tracing_graph' = build_dataflow_graph_for_tracing(raw_log)
    /\ UNCHANGED <<raw_log, exporterVars, loader_pc, loaded, htmlVars, consoleVars>>
    /\ UNCHANGED <<fifoVars, statusVars, graphVars, traceVars, tokenVars, utilVars,
                   toolVars>>

\* graph, reverse_graph, all_events = build_dataflow_graph(log_file)
BuildDataflowGraph ==
    /\ loader_pc = "new"
    /\ LET st == build_dataflow_graph(raw_log)
       IN  /\ loader_pc' = IF st.raised THEN "raised" ELSE "returned"
           /\ loaded' = [graph |-> st.graph, reverse_graph |-> st.reverse_graph,
                         all_events |-> st.all_events]
    /\ UNCHANGED <<raw_log, exporterVars, tracing_pc, tracing_graph, htmlVars,
                   consoleVars>>
    /\ UNCHANGED <<fifoVars, statusVars, graphVars, traceVars, tokenVars, utilVars,
                   toolVars>>

\* console = CGRADebugConsole(log_file)
LoadLog ==
    /\ console_pc = "new"
    /\ LET st == _load_log(raw_log)
       IN  /\ console_pc' = "loaded"
           /\ console_events' = st.events
           /\ console_by_cycle' = st.events_by_cycle
           /\ console_max_cycle' = st.max_cycle
    /\ UNCHANGED <<console_cmd, by_core, by_msg, blocked_cycles>>
    /\ UNCHANGED <<raw_log, exporterVars, tracing_pc, tracing_graph, loader_pc, loaded, htmlVars>>
    /\ UNCHANGED <<fifoVars, statusVars, graphVars, traceVars, tokenVars, utilVars,
                   toolVars>>

\* a parsed line that is a dict
IsDict(event) == "array" \notin DOMAIN event

\* mutant: do_cycle groups every event, None coordinates included
AnyCoordinates(event) == TRUE

\* do_cycle, lines 69-70: x is not None and y is not None
HasCoordinates(event) == event.X # Missing /\ event.Y # Missing

\* do_cycle, lines 67-71: by_core after the events of the cycle
RECURSIVE GroupByCore(_, _, _)
GroupByCore(groups, cycle_events, i) ==
    IF i > Len(cycle_events) THEN groups
    ELSE LET event == cycle_events[i]
         IN  GroupByCore(IF HasCoordinates(event)
                         THEN DictAppend(groups, <<event.X, event.Y>>, event)
                         ELSE groups,
                         cycle_events, i + 1)

\* do_stats, lines 203-206: by_msg after the events
RECURSIVE CountByMsg(_, _, _)
CountByMsg(counts, event_list, i) ==
    IF i > Len(event_list) THEN counts
    ELSE CountByMsg(CountDictAdd(counts, event_list[i].msg), event_list, i + 1)

\* do_stats, lines 213-216: the cycles with a Backpressure event
BlockedCycles(by_cycle) ==
    Cardinality({cycle \in DOMAIN by_cycle :
                    \E i \in 1..Len(by_cycle[cycle]) :
                        by_cycle[cycle][i].msg = "Backpressure"})

\* the cycles a command of the console is given
ConsoleCycles == {0, 1, 2}

\* cgra> cycle <N>; the command reads the index with .get(cycle, [])
DoCycle(cycle) ==
    /\ console_pc = "loaded"
    /\ console_cmd' = <<"cycle", cycle>>
    /\ LET cycle_events == DictGet(console_by_cycle, cycle)
       IN  by_core' = IF cycle_events = <<>> THEN EmptyDict
                      ELSE GroupByCore(EmptyDict, cycle_events, 1)
    /\ UNCHANGED <<console_pc, console_events, console_by_cycle, console_max_cycle,
                   by_msg, blocked_cycles>>
    /\ UNCHANGED <<raw_log, exporterVars, tracing_pc, tracing_graph, loader_pc, loaded, htmlVars>>
    /\ UNCHANGED <<fifoVars, statusVars, graphVars, traceVars, tokenVars, utilVars,
                   toolVars>>

\* cgra> stats; event.get raises AttributeError on a parsed list, and the
\* command loop ends with it
DoStats ==
    /\ console_pc = "loaded"
    /\ console_cmd' = <<"stats", 0>>
    /\ IF \A i \in 1..Len(console_events) : IsDict(console_events[i])
       THEN /\ by_msg' = CountByMsg(EmptyDict, console_events, 1)
            /\ blocked_cycles' = BlockedCycles(console_by_cycle)
            /\ UNCHANGED console_pc
       ELSE /\ console_pc' = "raised"
            /\ UNCHANGED <<by_msg, blocked_cycles>>
    /\ UNCHANGED <<console_events, console_by_cycle, console_max_cycle, by_core>>
    /\ UNCHANGED <<raw_log, exporterVars, tracing_pc, tracing_graph, loader_pc, loaded, htmlVars>>
    /\ UNCHANGED <<fifoVars, statusVars, graphVars, traceVars, tokenVars, utilVars,
                   toolVars>>

InitIngestVars ==
    /\ raw_log = <<>>
    /\ exporter_pc = "new"
    /\ events_by_cycle = EmptyDict
    /\ max_cycle = 0
    /\ csv_rows = EmptyDict
    /\ tracing_pc = "new"
    /\ tracing_graph = EmptyDict
    /\ loader_pc = "new"
    /\ loaded = [graph |-> EmptyDict, reverse_graph |-> EmptyDict, all_events |-> <<>>]
    /\ html_pc = "new"
    /\ html_index = NoHtmlIndex
    /\ console_pc = "new"
    /\ console_events = <<>>
    /\ console_by_cycle = EmptyDict
    /\ console_max_cycle = 0
    /\ console_cmd = <<"none", 0>>
    /\ by_core = EmptyDict
    /\ by_msg = EmptyDict
    /\ blocked_cycles = 0

-----------------------------------------------------------------------------
(* diagnose_backpressure.py: BackpressureDiagnosis                         *)

\* longest log read by BackpressureDiagnosis.parse_log
MaxDiagLines == 3

DiagEntry(msg, time, x) == [msg |-> msg, Time |-> time, X |-> x, Y |-> 0]

\* the lines of the log: Backpressure and DataFlow lines of PE (0,0) and
\* PE (1,0) at cycles 0 to 2, and a Backpressure line without Time
DiagEntries ==
    {DiagEntry(msg, time, x) :
        <<msg, time, x>> \in {"Backpressure", "DataFlow"} \X {0, 1, 2} \X {0, 1}}
        \cup {DiagEntry("Backpressure", Missing, 0)}

DiagMaxCycles == {0, 1}

\* find_blocking_reasons, lines 36-44: the loop over self.events from the
\* i-th event on; the loop is left at the first event of a later cycle
RECURSIVE CollectBlocking(_, _, _, _, _, _)
CollectBlocking(found, event_list, i, x, y, cycle_limit) ==
    IF i > Len(event_list) THEN found
    ELSE LET event == event_list[i]
         IN  IF event.Time # Missing /\ event.Time > cycle_limit
             THEN found
             ELSE CollectBlocking(
                      IF event.msg = "Backpressure" /\ event.X = x /\ event.Y = y
                      THEN Append(found, event) ELSE found,
                      event_list, i + 1, x, y, cycle_limit)

\* show_dataflow_vs_blockage, lines 93-107: the cycles marked in
\* blocks_by_cycle; an event of a later cycle is passed over
BlockedCyclesUpTo(event_list, x, y, cycle_limit) ==
    {event_list[i].Time : i \in
        {j \in 1..Len(event_list) :
            /\ event_list[j].Time # Missing /\ event_list[j].Time <= cycle_limit
            /\ event_list[j].X = x /\ event_list[j].Y = y
            /\ event_list[j].msg = "Backpressure"}}

NoQuery == <<"none", 0, 0, 0>>

\* parse_log, lines 20-26: one more line of the file is appended
DiagParseLine(event) ==
    /\ diag_query = NoQuery
    /\ Len(diag_events) < MaxDiagLines
    /\ diag_events' = Append(diag_events, event)
    /\ UNCHANGED <<diag_query, blocking_events, blocks_by_cycle>>
    /\ UNCHANGED dashboardVars
    /\ UNCHANGED <<fifoVars, statusVars, graphVars, traceVars, tokenVars, utilVars,
                   ingestVars>>

\* diagnosis.find_blocking_reasons(x, y, max_cycle)
FindBlockingReasons(x, y, cycle_limit) ==
    /\ diag_query = NoQuery
    /\ diag_query' = <<"find_blocking_reasons", x, y, cycle_limit>>
    /\ blocking_events' = CollectBlocking(<<>>, diag_events, 1, x, y, cycle_limit)
    /\ UNCHANGED <<diag_events, blocks_by_cycle>>
    /\ UNCHANGED dashboardVars
    /\ UNCHANGED <<fifoVars, statusVars, graphVars, traceVars, tokenVars, utilVars,
                   ingestVars>>

\* diagnosis.show_dataflow_vs_blockage(x, y, max_cycle)
ShowDataflowVsBlockage(x, y, cycle_limit) ==
    /\ diag_query = NoQuery
    /\ diag_query' = <<"show_dataflow_vs_blockage", x, y, cycle_limit>>
    /\ blocks_by_cycle' = BlockedCyclesUpTo(diag_events, x, y, cycle_limit)
    /\ UNCHANGED <<diag_events, blocking_events>>
    /\ UNCHANGED dashboardVars
    /\ UNCHANGED <<fifoVars, statusVars, graphVars, traceVars, tokenVars, utilVars,
                   ingestVars>>

InitDiagnosisVars ==
    /\ diag_events = <<>>
    /\ diag_query = NoQuery
    /\ blocking_events = <<>>
    /\ blocks_by_cycle = {}

-----------------------------------------------------------------------------
(* debugger/dashboard.py: one run of the script per click                  *)

\* largest number of images a Debug run writes to one directory
MaxImages == 2

Min(a, b) == IF a <= b THEN a ELSE b

\* what st.slider does with a session value above its maximum is decided by
\* the library: it keeps the value, lowers it to the maximum, or raises
SliderOutcomes == {"keeps", "clamps", "raises"}

\* lines 66-93: the static section, for the click "s_prev", "s_next" or none
StaticSection(idx, click, images) ==
    IF images = 0 THEN [static_idx |-> idx, static |-> "warning"]
    ELSE LET first == IF idx = Missing THEN 0 ELSE idx
             moved == IF click = "s_prev" THEN (first - 1) % images
                      ELSE IF click = "s_next" THEN (first + 1) % images
                      ELSE first
         IN  [static_idx |-> moved,
              static |-> IF moved < images THEN "image" ELSE "IndexError"]

\* lines 97-147: the dynamic section
DynamicSection(step, timesteps, slider) ==
    IF timesteps = 0 THEN [timestep |-> step, dynamic |-> "warning", buttons |-> 0]
    ELSE LET first == IF step = Missing THEN 0 ELSE step
         IN  IF first <= timesteps - 1
             THEN [timestep |-> first, dynamic |-> "image", buttons |-> timesteps]
             ELSE IF slider = "raises"
             THEN [timestep |-> first, dynamic |-> "StreamlitAPIException",
                   buttons |-> timesteps]
             ELSE IF slider = "clamps"
             THEN [timestep |-> timesteps - 1, dynamic |-> "image",
                   buttons |-> timesteps]
             ELSE [timestep |-> first, dynamic |-> "IndexError", buttons |-> timesteps]

\* lines 65-147: the script from "if st.session_state.get('viz_ready')" on;
\* an IndexError of the static section ends the run
RunScript(ready, images, meshes, dfgs, idx, step, click, slider) ==
    IF ~ready
    THEN [static_idx |-> idx, timestep |-> step, static |-> "none",
          dynamic |-> "none", buttons |-> 0]
    ELSE LET upper == StaticSection(idx, click, images)
             lower == DynamicSection(step, Min(meshes, dfgs), slider)
         IN  IF upper.static = "IndexError"
             THEN [static_idx |-> upper.static_idx, timestep |-> step,
                   static |-> "IndexError", dynamic |-> "none", buttons |-> 0]
             ELSE [static_idx |-> upper.static_idx, timestep |-> lower.timestep,
                   static |-> upper.static, dynamic |-> lower.dynamic,
                   buttons |-> lower.buttons]

\* the session state and the display after a run
Rerun(run) ==
    /\ static_idx' = run.static_idx
    /\ timestep' = run.timestep
    /\ num_timesteps' = run.buttons
    /\ shown' = [static |-> run.static, dynamic |-> run.dynamic]

\* lines 37-63: the Debug button; draw_yaml and process_log_and_draw write
\* the images, and an exception leaves viz_ready as it was
ClickDebug(images, meshes, dfgs, succeeds, slider) ==
    /\ static_files' = images
    /\ mesh_files' = meshes
    /\ dfg_files' = dfgs
    /\ viz_ready' = (viz_ready \/ succeeds)
    /\ Rerun(RunScript(viz_ready \/ succeeds, images, meshes, dfgs,
                       static_idx, timestep, "Debug", slider))
    /\ UNCHANGED diagnosisVars
    /\ UNCHANGED <<fifoVars, statusVars, graphVars, traceVars, tokenVars, utilVars,
                   ingestVars>>

\* lines 80-85: the s_prev or s_next button of the last run is clicked
ClickStatic(click, slider) ==
    /\ viz_ready /\ static_files > 0
    /\ Rerun(RunScript(viz_ready, static_files, mesh_files, dfg_files,
                       static_idx, timestep, click, slider))
    /\ UNCHANGED <<viz_ready, static_files, mesh_files, dfg_files>>
    /\ UNCHANGED diagnosisVars
    /\ UNCHANGED <<fifoVars, statusVars, graphVars, traceVars, tokenVars, utilVars,
                   ingestVars>>

\* lines 118-128: the d_prev or d_next button of the last run is clicked;
\* its callback dec_time or inc_time runs before the script
ClickDynamic(click, slider) ==
    /\ num_timesteps > 0
    /\ LET stepped == IF click = "d_prev" THEN (timestep - 1) % num_timesteps
                      ELSE (timestep + 1) % num_timesteps
       IN  Rerun(RunScript(viz_ready, static_files, mesh_files, dfg_files,
                           static_idx, stepped, click, slider))
    /\ UNCHANGED <<viz_ready, static_files, mesh_files, dfg_files>>
    /\ UNCHANGED diagnosisVars
    /\ UNCHANGED <<fifoVars, statusVars, graphVars, traceVars, tokenVars, utilVars,
                   ingestVars>>

InitDashboardVars ==
    /\ viz_ready = FALSE
    /\ static_files = 0
    /\ mesh_files = 0
    /\ dfg_files = 0
    /\ static_idx = Missing
    /\ timestep = Missing
    /\ num_timesteps = 0
    /\ shown = [static |-> "none", dynamic |-> "none"]

InitToolVars == InitDiagnosisVars /\ InitDashboardVars

-----------------------------------------------------------------------------
(* Per-(PE, cycle) status: export_cgra_csv.py and the page generated by    *)
(* generate_interactive_html.py                                            *)

\* PE coordinates (X, Y) and cycles of the log lines
PECoords == {<<0, 0>>, <<1, 0>>}
StatusCycles == {0, 1}

StatusEntry(msg, behavior, pe, time) ==
    [msg |-> msg, Behavior |-> behavior, X |-> pe[1], Y |-> pe[2], Time |-> time]

\* the lines of the log: instruction execution, DataFlow send and receive,
\* Backpressure and Memory events of a PE
StatusEntries ==
    UNION { { StatusEntry("InstExec", "", pe, t),
              StatusEntry("DataFlow", "Send", pe, t),
              StatusEntry("DataFlow", "Recv", pe, t),
              StatusEntry("Backpressure", "", pe, t),
              StatusEntry("Memory", "WriteMemory", pe, t) }
            : <<pe, t>> \in PECoords \X StatusCycles }

\* the entries of log with the given Time, in file order
RECURSIVE EntriesAt(_, _, _)
EntriesAt(log, time, i) ==
    IF i = 0 THEN <<>>
    ELSE IF log[i].Time = time
         THEN Append(EntriesAt(log, time, i - 1), log[i])
         ELSE EntriesAt(log, time, i - 1)

\* cores: every (X, Y) that occurs in the log
CoresOf(log) == {<<log[i].X, log[i].Y>> : i \in 1..Len(log)}

\* max_cycle: the largest Time, starting from 0
RECURSIVE MaxCycleOf(_, _)
MaxCycleOf(log, i) ==
    IF i = 0 THEN 0
    ELSE LET m == MaxCycleOf(log, i - 1)
         IN  IF log[i].Time > m THEN log[i].Time ELSE m

\* CGRAStateExporter.parse_log: events_by_cycle[time][msg], as a lookup
\* cycle_events.get(msg, [])
EventsByCycle(log, cycle, msg) ==
    LET at == EntriesAt(log, cycle, Len(log))
    IN  SelectSeq(at, LAMBDA e : e.msg = msg)

\* export_core_activity_csv, lines 74-106: the Status column of (x, y) in
\* the row of cycle
ExporterStatus(log, pe, cycle) ==
    LET inst == EventsByCycle(log, cycle, "InstExec")
        backp == EventsByCycle(log, cycle, "Backpressure")
                     \o EventsByCycle(log, cycle, "InstGroup_Blocked")
        mine(e) == e.X = pe[1] /\ e.Y = pe[2]
        executed == \E i \in 1..Len(inst) : mine(inst[i])
        blocked == \E i \in 1..Len(backp) : mine(backp[i])
    IN  IF blocked THEN "BLOCKED"
        ELSE IF executed THEN "EXEC"
        ELSE "IDLE"

\* export_core_activity_csv: the Status column of every row
export_core_activity_csv(log) ==
    [k \in CoresOf(log) \X (0..MaxCycleOf(log, Len(log))) |->
        ExporterStatus(log, k[1], k[2])]

\* updateGrid, lines 1327-1412: one legacy event applied to the state of
\* the PE it names
GridEvent(core, event) ==
    IF event.msg = "DataFlow" THEN [core EXCEPT !.hasActivity = TRUE]
    ELSE IF event.msg = "Backpressure" THEN [core EXCEPT !.status = "BLOCKED"]
    ELSE IF event.msg = "InstExec"
    THEN [core EXCEPT !.hasActivity = TRUE, !.status = "EXEC"]
    ELSE IF event.msg = "Memory" THEN [core EXCEPT !.hasActivity = TRUE]
    ELSE core

\* updateGrid, lines 1278-1292 and 1327-1412: coreState[x,y] after the
\* first i events of the cycle
RECURSIVE GridCoreState(_, _, _)
GridCoreState(cycleEvents, pe, i) ==
    IF i = 0 THEN [status |-> "IDLE", hasActivity |-> FALSE]
    ELSE LET core == GridCoreState(cycleEvents, pe, i - 1)
         IN  IF cycleEvents[i].X = pe[1] /\ cycleEvents[i].Y = pe[2]
             THEN GridEvent(core, cycleEvents[i])
             ELSE core

\* updateGrid, lines 1414-1421: the status shown for every core
updateGrid(log, currentCycle) ==
    LET cycleEvents == EntriesAt(log, currentCycle, Len(log))
    IN  [pe \in CoresOf(log) |->
            LET core == GridCoreState(cycleEvents, pe, Len(cycleEvents))
            IN  IF core.status = "BLOCKED" THEN "BLOCKED"
                ELSE IF core.hasActivity THEN "EXEC"
                ELSE core.status]

\* renderTimeline, lines 1859-1898: the status of the block of (x, y) in
\* the column of cycle
TimelineStatus(log, pe, cycle) ==
    LET cycleEvents == EntriesAt(log, cycle, Len(log))
        mine == {i \in 1..Len(cycleEvents) :
                    cycleEvents[i].X = pe[1] /\ cycleEvents[i].Y = pe[2]}
        hasActivity == mine # {}
        hasBackpressure == \E i \in mine : cycleEvents[i].msg = "Backpressure"
    IN  IF hasBackpressure THEN "blocked"
        ELSE IF hasActivity THEN "active"
        ELSE "idle"

\* renderTimeline: the status of every block
renderTimeline(log) ==
    [k \in CoresOf(log) \X (0..MaxCycleOf(log, Len(log))) |->
        TimelineStatus(log, k[1], k[2])]

NotRun == [ran |-> FALSE, cycle |-> 0, status |-> EmptyDict]
NoToolRan == ~csv_status.ran /\ ~grid_status.ran /\ ~timeline_status.ran

\* the simulator writes one more line to the log file
WriteStatusLine(entry) ==
    /\ NoToolRan
    /\ Len(status_log) < MaxStatusLines
    /\ status_log' = Append(status_log, entry)
    /\ UNCHANGED <<csv_status, grid_status, timeline_status>>
    /\ UNCHANGED <<fifoVars, graphVars, traceVars, tokenVars, utilVars, ingestVars, toolVars>>

\* export_cgra_csv.py: parse_log, then export_core_activity_csv
ExportCoreActivity ==
    /\ ~csv_status.ran
    /\ csv_status' = [ran |-> TRUE, cycle |-> 0,
                      status |-> export_core_activity_csv(status_log)]
    /\ UNCHANGED <<status_log, grid_status, timeline_status>>
    /\ UNCHANGED <<fifoVars, graphVars, traceVars, tokenVars, utilVars, ingestVars, toolVars>>

\* the generated page: updateGrid with currentCycle set by the slider
ShowCycle(currentCycle) ==
    /\ ~grid_status.ran
    /\ currentCycle <= MaxCycleOf(status_log, Len(status_log))
    /\ grid_status' = [ran |-> TRUE, cycle |-> currentCycle,
                       status |-> updateGrid(status_log, currentCycle)]
    /\ UNCHANGED <<status_log, csv_status, timeline_status>>
    /\ UNCHANGED <<fifoVars, graphVars, traceVars, tokenVars, utilVars, ingestVars, toolVars>>

\* the generated page: renderTimeline
ShowTimeline ==
    /\ ~timeline_status.ran
    /\ timeline_status' = [ran |-> TRUE, cycle |-> 0,
                           status |-> renderTimeline(status_log)]
    /\ UNCHANGED <<status_log, csv_status, grid_status>>
    /\ UNCHANGED <<fifoVars, graphVars, traceVars, tokenVars, utilVars, ingestVars, toolVars>>

InitStatusVars ==
    /\ status_log = <<>>
    /\ csv_status = NotRun
    /\ grid_status = NotRun
    /\ timeline_status = NotRun

InitStatus ==
    InitFifoVars /\ InitStatusVars /\ InitGraphVars /\ InitTokenVars /\ InitUtilVars
    /\ InitIngestVars /\ InitToolVars

NextStatus ==
    \/ \E entry \in StatusEntries : WriteStatusLine(entry)
    \/ ExportCoreActivity
    \/ \E currentCycle \in StatusCycles : ShowCycle(currentCycle)
    \/ ShowTimeline

SpecStatus == InitStatus /\ [][NextStatus]_vars

-----------------------------------------------------------------------------
(* The log parser's specification *)

InitFifo ==
    InitFifoVars /\ InitStatusVars /\ InitGraphVars /\ InitTokenVars /\ InitUtilVars
    /\ InitIngestVars /\ InitToolVars

SpecFifo == InitFifo /\ [][NextFifo]_vars

InitTrace ==
    InitFifoVars /\ InitStatusVars /\ InitGraphVars /\ InitTokenVars /\ InitUtilVars
    /\ InitIngestVars /\ InitToolVars

InitForward ==
    InitFifoVars /\ InitStatusVars /\ InitGraphVars /\ InitTokenVars /\ InitUtilVars
    /\ InitIngestVars /\ InitToolVars

InitToken ==
    InitFifoVars /\ InitStatusVars /\ InitGraphVars /\ InitTokenVars /\ InitUtilVars
    /\ InitIngestVars /\ InitToolVars

InitUtil ==
    InitFifoVars /\ InitStatusVars /\ InitGraphVars /\ InitTokenVars /\ InitUtilVars
    /\ InitIngestVars /\ InitToolVars

NextTrace ==
    \/ \E event \in TraceEntries :
           Len(all_events) < MaxGraphLines /\ AddGraphLine(event)
    \/ \E sink \in GraphNodes : \E limit \in DepthChoices : StartBackward(sink, limit)
    \/ BackwardStep

\* once called, trace_backward runs its loop until it returns
SpecTrace == InitTrace /\ [][NextTrace]_vars /\ WF_vars(BackwardStep)

NextForward ==
    \/ \E event \in ForwardEntries :
           Len(all_events) < MaxForwardLines /\ AddGraphLine(event)
    \/ \E source \in ForwardSources : \E limit \in DepthChoices : StartForward(source, limit)
    \/ \E source \in ForwardSources : StartJsForward(source)
    \/ ForwardStep

SpecForward == InitForward /\ [][NextForward]_vars

InitIngest ==
    InitFifoVars /\ InitStatusVars /\ InitGraphVars /\ InitTokenVars /\ InitUtilVars
    /\ InitIngestVars /\ InitToolVars

\* the parser builds its structures, then builds them again
NextRebuild ==
    \/ \E log_entry \in LogEntries : ParseLine(log_entry)
    \/ ParseLogReturns
    \/ \E same_parser \in BOOLEAN : Rebuild(same_parser)

SpecRebuild == InitFifo /\ [][NextRebuild]_vars

\* the exporter and the console read the file, then answer queries
NextQueries ==
    \/ \E line \in RawLines : WriteRawLine(line)
    \/ ParseLog
    \/ ExportCoreActivityCsv
    \/ LoadLog
    \/ \E cycle \in ConsoleCycles : DoCycle(cycle)
    \/ DoStats

SpecQueries == InitIngest /\ [][NextQueries]_vars

\* the debug console: the file is loaded, then commands are given
NextConsole ==
    \/ \E line \in RawLines : WriteRawLine(line)
    \/ LoadLog
    \/ \E cycle \in ConsoleCycles : DoCycle(cycle)
    \/ DoStats

SpecConsole == InitIngest /\ [][NextConsole]_vars

NextBackpressure ==
    \/ \E entry \in BPEntries : WriteUtilLine(entry)
    \/ \E trailer \in Trailers : AnalyzeAll(trailer)
    \/ GenerateBackpressureHeatmap

SpecBackpressure == InitUtil /\ [][NextBackpressure]_vars

\* the parser reading a log some of whose lines carry no Time
NextNoCycle == \E log_entry \in LogEntries \cup NoCycleEntries : ParseLine(log_entry)

SpecNoCycle == InitFifo /\ [][NextNoCycle]_vars

NextIngest ==
    \/ \E line \in RawLines : WriteRawLine(line)
    \/ ParseLog
    \/ BuildGraphForTracing
    \/ BuildDataflowGraph
    \/ LoadLog

SpecIngest == InitIngest /\ [][NextIngest]_vars

\* the routes of the log: tile to tile, tile to driver, driver to tile, and
\* the single driver of a Collect or tile of a FeedIn
RouteTiles == {Tile(r, c, "East") : <<r, c>> \in {0, 1} \X {0, 1}}
RouteDrivers ==
    {Driver(d, i) : <<d, i>> \in {"North", "South", "East", "West"} \X {0, 1, 2}}
Routes ==
    (RouteTiles \X RouteTiles) \cup (RouteTiles \X RouteDrivers)
        \cup (RouteDrivers \X RouteTiles)
        \cup ({EmptyString} \X (RouteDrivers \cup RouteTiles))

NextResolve == \E route \in Routes : ResolveRoute(route)

SpecResolve == InitFifo /\ [][NextResolve]_vars

\* a PEState snapshot of PE (0,0) at a cycle
SnapshotLine(time) ==
    ObjectLine([msg |-> "PEState", Time |-> Missing, X |-> Missing, Y |-> Missing,
                state |-> [time |-> time, x |-> 0, y |-> 0]])

\* the console and the page generator reading one file
NextCycleIndex ==
    \/ \E line \in RawLines \cup {SnapshotLine(0)} : WriteRawLine(line)
    \/ LoadLog
    \/ GenerateInteractiveHtml

SpecCycleIndex == InitIngest /\ [][NextCycleIndex]_vars

NextDiagnosis ==
    \/ \E event \in DiagEntries : DiagParseLine(event)
    \/ \E cycle_limit \in DiagMaxCycles : FindBlockingReasons(0, 0, cycle_limit)
    \/ \E cycle_limit \in DiagMaxCycles : ShowDataflowVsBlockage(0, 0, cycle_limit)

SpecDiagnosis == InitIngest /\ [][NextDiagnosis]_vars

NextDashboard ==
    \/ \E counts \in (0..MaxImages) \X (0..MaxImages) \X (0..MaxImages) :
           \E succeeds \in BOOLEAN : \E slider \in SliderOutcomes :
               ClickDebug(counts[1], counts[2], counts[3], succeeds, slider)
    \/ \E click \in {"s_prev", "s_next"} : \E slider \in SliderOutcomes :
           ClickStatic(click, slider)
    \/ \E click \in {"d_prev", "d_next"} : \E slider \in SliderOutcomes :
           ClickDynamic(click, slider)

SpecDashboard == InitIngest /\ [][NextDashboard]_vars

\* DataFlow lines between A and B in two cycles, two directions and two
\* channels, and the nodes they name
ChannelKeys == {<<"East", 0>>, <<"West", 0>>, <<"East", 1>>}
ChannelEntries ==
    {[TraceEntry(t, ends[1], ends[2]) EXCEPT !.Direction = key[1], !.Color = key[2]] :
        <<t, ends, key>> \in GraphCycles \X {<<"A", "B">>, <<"B", "A">>} \X ChannelKeys}
ChannelNodes ==
    {<<t, n, key[1], key[2]>> : <<t, n, key>> \in GraphCycles \X {"A", "B"} \X ChannelKeys}

NextChannel ==
    \/ \E event \in ChannelEntries :
           Len(all_events) < MaxGraphLines /\ AddGraphLine(event)
    \/ \E sink \in ChannelNodes : \E limit \in DepthChoices : StartBackward(sink, limit)
    \/ BackwardStep
    \/ \E source \in ChannelNodes : \E limit \in DepthChoices : StartForward(source, limit)
    \/ ForwardExpand
    \/ ForwardReturn

SpecChannel == InitTrace /\ [][NextChannel]_vars

\* trace_forward on graphs of four nodes
ReachNames == {"A", "B", "C", "D"}

NextReach ==
    \/ \E event \in {TraceEntry(0, f, d) : <<f, d>> \in ReachNames \X ReachNames} :
           Len(all_events) < MaxForwardLines /\ AddGraphLine(event)
    \/ \E limit \in DepthChoices : StartForward(<<0, "A", "East", 0>>, limit)
    \/ ForwardExpand
    \/ ForwardReturn

SpecReach == InitForward /\ [][NextReach]_vars

NextToken ==
    \/ \E event \in TokenEntries : WriteTokenLine(event)
    \/ BuildTokenEvents

SpecToken == InitToken /\ [][NextToken]_vars

NextUtil ==
    \/ \E entry \in UtilEntries : WriteUtilLine(entry)
    \/ \E trailer \in Trailers : AnalyzeAll(trailer)
    \/ GeneratePEHeatmap

SpecUtil == InitUtil /\ [][NextUtil]_vars

-----------------------------------------------------------------------------
(* Reference notions for the FIFO claims, defined on the ingested log      *)
(* alone: a counter per link that goes up on a push and down on a pop      *)
(* unless it is zero.                                                      *)

AllLinks == {LinkOf(e) : e \in LogEntries} \ {NoLink}
\* the cycles at which the pending data is queried
QueryTimes == {0, 1, 2}

\* event i of the log is an event of link L with cycle <= C
Counts(evs, L, C, i) == evs[i].link = L /\ evs[i].cycle <= C

\* pushes, pops, skipped pops and occupancy of link L after the first i
\* events of the log, counting the events with cycle <= C
RECURSIVE Tally(_, _, _, _)
Tally(evs, L, C, i) ==
    IF i = 0 THEN [pushes |-> 0, pops |-> 0, skipped |-> 0, occupancy |-> 0]
    ELSE LET t == Tally(evs, L, C, i - 1)
         IN  IF ~Counts(evs, L, C, i) THEN t
             ELSE IF evs[i].push
             THEN [t EXCEPT !.pushes = @ + 1, !.occupancy = @ + 1]
             ELSE IF t.occupancy > 0
             THEN [t EXCEPT !.pops = @ + 1, !.occupancy = @ - 1]
             ELSE [t EXCEPT !.pops = @ + 1, !.skipped = @ + 1]

Pushes(L, C) == Tally(events, L, C, Len(events)).pushes
Pops(L, C) == Tally(events, L, C, Len(events)).pops
SkippedPops(L, C) == Tally(events, L, C, Len(events)).skipped
EffectivePops(L, C) ==
    LET t == Tally(events, L, C, Len(events)) IN t.pops - t.skipped

\* event i of the log is a pop that finds its queue empty, in the replay of
\* the events with cycle <= C
FoundEmpty(evs, C, i) ==
    /\ evs[i].link # NoLink
    /\ ~evs[i].push
    /\ evs[i].cycle <= C
    /\ Tally(evs, evs[i].link, C, i - 1).occupancy = 0

\* the payloads pushed on L with cycle <= C, in arrival order
RECURSIVE PushSequence(_, _, _)
PushSequence(L, C, i) ==
    IF i = 0 THEN <<>>
    ELSE IF Counts(events, L, C, i) /\ events[i].push
         THEN Append(PushSequence(L, C, i - 1), events[i].data)
         ELSE PushSequence(L, C, i - 1)

\* s without its first n elements
Drop(s, n) == SubSeq(s, n + 1, Len(s))

\* <<pending_data, data_flow_history>> after parse_log has ingested the
\* first i lines of the log, leaving out the pops that find their queue
\* empty in the replay up to C
RECURSIVE IngestWithoutFaultyPops(_, _)
IngestWithoutFaultyPops(C, i) ==
    IF i = 0 THEN <<EmptyDict, <<>>>>
    ELSE LET before == IngestWithoutFaultyPops(C, i - 1)
         IN  IF FoundEmpty(events, C, i) THEN before
             ELSE _update_pending_data(before[1], before[2],
                                       TimestampOf(ingested[i]), OperationOf(ingested[i]))

\* number of operations held by the timestamps index
RECURSIVE StoredOperations(_)
StoredOperations(keys) ==
    IF keys = {} THEN 0
    ELSE LET k == CHOOSE x \in keys : TRUE
         IN  Len(timestamps[k]) + StoredOperations(keys \ {k})

-----------------------------------------------------------------------------
(* Claims on the link FIFO replay (SpecFifo) *)

\* C1: for every link L and query cycle C, the length of pending(L, C) is
\* the number of pushes on L with cycle <= C minus the number of pops on L
\* with cycle <= C that did not find the queue empty.
FifoLengthIsPushesMinusPops ==
    \A C \in QueryTimes :
        LET pending == _get_pending_data_at_timestamp(C)
        IN  \A L \in AllLinks :
                Len(DictGet(pending, L)) = Pushes(L, C) - EffectivePops(L, C)

\* C1 witness: a link with a push, an effective pop and a skipped pop
FifoLengthWitness ==
    \E L \in AllLinks : \E C \in QueryTimes :
        /\ Pushes(L, C) >= 1
        /\ EffectivePops(L, C) >= 1
        /\ SkippedPops(L, C) >= 1

\* C2: the pending queue of a link, at every query cycle and in the
\* incrementally maintained pending_data, is the link's push sequence in
\* arrival order without its first p elements, p the number of effective pops.
FifoIsStrict ==
    /\ \A C \in QueryTimes :
           LET pending == _get_pending_data_at_timestamp(C)
           IN  \A L \in AllLinks :
                   DictGet(pending, L)
                       = Drop(PushSequence(L, C, Len(events)), EffectivePops(L, C))
    /\ \A L \in AllLinks :
           DictGet(pending_data, L)
               = Drop(PushSequence(L, LastTime, Len(events)), EffectivePops(L, LastTime))

\* C2 witness: "5" then "7" were pushed and a pop carrying "7" removed "5"
FifoStrictWitness ==
    \E L \in AllLinks :
        /\ PushSequence(L, LastTime, Len(events)) = <<"5", "7">>
        /\ Len(ingested) = 3
        /\ ~events[3].push /\ events[3].link = L /\ events[3].data = "7"
        /\ DictGet(pending_data, L) = <<"7">>

\* C9: a pop that finds its queue empty changes no queue; ingestion goes on
\* (every line is stored in the timestamps index); and the queues, during
\* ingestion and in the replay of every query cycle, are those of the log
\* without the faulty pops.
FaultyPopIsSkipped ==
    /\ (Len(ingested) > 0 /\ FoundEmpty(events, LastTime, Len(ingested)))
           => pending_data = prev_pending
    /\ StoredOperations(DOMAIN timestamps) = Len(ingested)
    /\ pending_data = IngestWithoutFaultyPops(LastTime, Len(ingested))[1]
    /\ \A C \in QueryTimes :
           _get_pending_data_at_timestamp(C)
               = PendingOf(IngestWithoutFaultyPops(C, Len(ingested))[2], C)

\* C9 witness: a pop found its queue empty and a later push on the same
\* link is pending
FaultyPopWitness ==
    /\ Len(ingested) = 3
    /\ FoundEmpty(events, LastTime, 1)
    /\ events[2].push /\ events[2].link = events[1].link
    /\ events[3].push /\ events[3].link \notin {events[1].link, NoLink}
    /\ DictGet(pending_data, events[1].link) = <<events[2].data>>

\* C10: every pop on an empty queue is recorded as a DataIntegrityError
\* with its cycle and link, and the number of recorded faults is the number
\* of pops that found their queue empty.
EmptyPopsAreRecorded ==
    LET faulty == {i \in 1..Len(ingested) : FoundEmpty(events, LastTime, i)}
    IN  /\ Len(integrity_errors) = Cardinality(faulty)
        /\ \A i \in faulty :
               \E k \in 1..Len(integrity_errors) :
                   integrity_errors[k] = <<events[i].cycle, events[i].link>>

\* the queue of link L after the first i events of the log, replaying in
\* arrival order the pushes and pops of L with cycle <= C
RECURSIVE QueueOf(_, _, _)
QueueOf(L, C, i) ==
    IF i = 0 THEN <<>>
    ELSE LET q == QueueOf(L, C, i - 1)
         IN  IF ~Counts(events, L, C, i) THEN q
             ELSE IF events[i].push THEN Append(q, events[i].data)
             ELSE IF q = <<>> THEN q
             ELSE Tail(q)

\* the history without its events later than C
HistoryUpTo(C) == SelectSeq(data_flow_history, LAMBDA event : event.timestamp <= C)

\* the log is a push of "5" at cycle 0 and a pop at cycle 2 on one link
ScenarioB ==
    /\ Len(events) = 2
    /\ events[1].link # NoLink /\ events[2].link = events[1].link
    /\ events[1].push /\ events[1].cycle = 0 /\ events[1].data = "5"
    /\ ~events[2].push /\ events[2].cycle = 2

\* C11: pending(L, C) is the queue obtained by replaying in arrival order
\* exactly the events of L with cycle <= C: the events later than C have no
\* influence wherever they stand in the log, the events at C are included;
\* a push of "5" at cycle 0 and a pop at cycle 2 give ["5"] at 1 and [] at 2.
PendingReplaysUpToCycle ==
    /\ \A C \in QueryTimes :
           LET pending == _get_pending_data_at_timestamp(C)
           IN  /\ \A L \in AllLinks : DictGet(pending, L) = QueueOf(L, C, Len(events))
               /\ pending = PendingOf(HistoryUpTo(C), C)
    /\ ScenarioB =>
           /\ DictGet(_get_pending_data_at_timestamp(1), events[1].link) = <<"5">>
           /\ DictGet(_get_pending_data_at_timestamp(2), events[1].link) = <<>>

\* C11 witness: the scenario, queried at cycle 1, between the push and the pop
PendingReplayWitness ==
    /\ ScenarioB
    /\ DictGet(_get_pending_data_at_timestamp(1), events[1].link) = <<"5">>

-----------------------------------------------------------------------------
(* Claims on the per-(PE, cycle) status (SpecStatus) *)

\* the events of (pe, cycle) in the log
EventsOfPE(log, pe, cycle) ==
    {i \in 1..Len(log) : log[i].X = pe[1] /\ log[i].Y = pe[2] /\ log[i].Time = cycle}

\* the precedence of the specification: Backpressure, then activity, then idle
CanonicalStatus(log, pe, cycle) ==
    IF \E i \in EventsOfPE(log, pe, cycle) : log[i].msg = "Backpressure"
    THEN "Blocked"
    ELSE IF \E i \in EventsOfPE(log, pe, cycle) :
                log[i].msg \in {"InstExec", "DataFlow", "Memory"}
    THEN "Executing"
    ELSE "Idle"

\* the names the tools give to the three statuses
StatusName(s) ==
    IF s \in {"BLOCKED", "blocked"} THEN "Blocked"
    ELSE IF s \in {"EXEC", "active"} THEN "Executing"
    ELSE "Idle"

\* C3: the status of every (pe, cycle), in the CSV export and in the grid
\* of the page, is Blocked if the PE has a Backpressure event in the cycle,
\* otherwise Executing if it has an Execution, DataFlow or Memory event,
\* otherwise Idle.
StatusFollowsPrecedence ==
    /\ csv_status.ran =>
           \A k \in DOMAIN csv_status.status :
               StatusName(csv_status.status[k]) = CanonicalStatus(status_log, k[1], k[2])
    /\ grid_status.ran =>
           \A pe \in DOMAIN grid_status.status :
               StatusName(grid_status.status[pe])
                   = CanonicalStatus(status_log, pe, grid_status.cycle)

\* the permutations of a log
Reorderings(log) ==
    LET n == Len(log)
        bijections == {f \in [1..n -> 1..n] : \A i, j \in 1..n : f[i] = f[j] => i = j}
    IN  {[i \in 1..n |-> log[f[i]]] : f \in bijections}

\* C4: the status computed for a (pe, cycle) is the same for every
\* permutation of the events in the input.
StatusIsOrderIndependent ==
    \A log \in Reorderings(status_log) :
        /\ csv_status.ran => export_core_activity_csv(log) = csv_status.status
        /\ grid_status.ran => updateGrid(log, grid_status.cycle) = grid_status.status
        /\ timeline_status.ran => renderTimeline(log) = timeline_status.status

-----------------------------------------------------------------------------
(* Claims on the backward trace (SpecTrace) *)

\* C5: on every graph, cyclic ones and self-loops included, and for every
\* sink, trace_backward returns; the returned path has no node twice, at
\* most max_depth + 1 nodes, and the sink as its last node.
BackwardTraceTerminates ==
    /\ (trace_pc = "backward") ~> (trace_pc = "done")
    /\ [](trace_pc = "done" =>
            /\ \A i, j \in 1..Len(path) : path[i] = path[j] => i = j
            /\ Len(path) <= max_depth + 1
            /\ Len(path) >= 1 /\ path[Len(path)] = sink_node)

\* C5 witness: a trace that returned because the first incoming edge of
\* the node it reached leads back into the path (a cycle or a self-loop)
BackwardCycleWitness ==
    /\ trace_pc = "done"
    /\ depth < max_depth
    /\ Incoming(graph, current_node) # <<>>
    /\ Incoming(graph, current_node)[1][1] \in visited

\* C6: from a sink with no recorded incoming edge, trace_backward returns
\* exactly [sink].
NoIncomingGivesSink ==
    (trace_pc = "done" /\ DictGet(graph, sink_node) = <<>>) => path = <<sink_node>>

\* C6 witness: such a trace, from a sink that has an outgoing edge only,
\* and from a sink that is no node of the graph
NoIncomingWitness ==
    /\ trace_pc = "done"
    /\ max_depth > 0
    /\ sink_node \notin DOMAIN graph
    /\ sink_node \in DOMAIN reverse_graph
    /\ path = <<sink_node>>

\* the returned value has a truncated flag, and the flag is set
CarriesTruncated(result) ==
    "truncated" \in DOMAIN result /\ result["truncated"] = TRUE

\* the returned trace stopped at max_depth or at the cycle guard, not for
\* want of a further edge
StoppedByGuard ==
    \/ /\ trace_fn = "trace_backward"
       /\ \/ ~(depth < max_depth)
          \/ /\ Incoming(graph, current_node) # <<>>
             /\ Incoming(graph, current_node)[1][1] \in visited
    \/ /\ trace_fn \in {"trace_forward", "traceForward"}
       /\ queue # <<>>

\* C13: a trace that stops at max_depth or at the cycle guard returns a
\* result that carries a truncated flag, and a trace that stops because no
\* further edge exists returns a result without the flag set.
TruncationIsFlagged ==
    trace_pc = "done" => (CarriesTruncated(TraceResult) <=> StoppedByGuard)

\* the lines of the log that record an edge into node q, by position
EdgesInto(q) ==
    {i \in 1..Len(all_events) :
        /\ all_events[i].msg = "DataFlow"
        /\ all_events[i].From # "" /\ all_events[i].To # ""
        /\ <<all_events[i].Time, all_events[i].To, all_events[i].Direction,
              all_events[i].Color>> = q}

\* the origin of the edge line i records
OriginOf(i) ==
    <<all_events[i].Time, all_events[i].From, all_events[i].Direction,
      all_events[i].Color>>

\* C20: in the path of a backward trace, each node is the origin of the
\* first-recorded incoming edge of the node after it, whatever other edges
\* into that node the log records later.
BackwardFollowsFirstRecordedEdge ==
    (trace_fn = "trace_backward" /\ trace_pc = "done") =>
        \A k \in 1..(Len(path) - 1) :
            /\ EdgesInto(path[k + 1]) # {}
            /\ LET first == CHOOSE i \in EdgesInto(path[k + 1]) :
                                \A j \in EdgesInto(path[k + 1]) : i <= j
               IN  path[k] = OriginOf(first)

\* C20 witness: a returned path whose last step enters a node that has two
\* recorded incoming edges of different origins
TwoIncomingEdgesWitness ==
    /\ trace_fn = "trace_backward" /\ trace_pc = "done"
    /\ Len(path) >= 2
    /\ \E i, j \in EdgesInto(path[Len(path)]) : OriginOf(i) # OriginOf(j)

-----------------------------------------------------------------------------
(* Claims on the token events (SpecToken) *)

\* the lines of the log that name the token with a time and coordinates
LinesOfToken(token_id) ==
    {i \in 1..Len(token_log) :
        /\ token_log[i].msg = "DataFlow"
        /\ token_log[i].TokenID = token_id
        /\ token_log[i].X # Missing}

\* the ports of the PEState snapshots of the log that name the token
PortsOfToken(token_id) ==
    {<<i, side, j>> \in (1..Len(token_log)) \X {"inputs", "outputs"} \X (1..2) :
        /\ token_log[i].msg = "PEState"
        /\ j <= Len(token_log[i].state[side])
        /\ token_log[i].state[side][j].token_id = token_id}

\* C7: the list build_token_events returns for a token holds one entry per
\* ingested event of the token and is non-decreasing in cycle from its first
\* entry to its last, whatever the order of the lines in the log.
TokenPathIsOrdered ==
    token_built =>
        \A token_id \in TokenIds :
            LET token_path == DictGet(token_events, token_id)
            IN  /\ Len(token_path)
                       = Cardinality(LinesOfToken(token_id))
                             + Cardinality(PortsOfToken(token_id))
                /\ \A i \in 1..Len(token_path) : token_path[i].token_id = token_id
                /\ \A i, j \in 1..Len(token_path) :
                       i < j => token_path[i].time <= token_path[j].time

\* C7 witness: a token whose lines arrived out of cycle order
TokenOutOfOrderWitness ==
    /\ token_built
    /\ \E token_id \in TokenIds :
           \E i, j \in LinesOfToken(token_id) :
               i < j /\ IntOf(token_log[i].Time) > IntOf(token_log[j].Time)

-----------------------------------------------------------------------------
(* Claims on the per-PE utilization (SpecUtil) *)

\* the cycles in which the PE has an Execution, DataFlow or Memory event
CyclesWithActivity(x, y) ==
    {util_log[i].Time : i \in
        {j \in 1..Len(util_log) :
            /\ util_log[j].X = x /\ util_log[j].Y = y
            /\ util_log[j].msg \in {"Inst_Exec", "DataFlow", "Memory"}}}

\* C8: the utilization of a PE is min(100, 100 * A / T), A the number of
\* distinct cycles with an Execution, DataFlow or Memory event of the PE
\* and T the total number of cycles, and 0 when T = 0.
UtilizationCountsActiveCycles ==
    util_pc = "plotted" =>
        \A pe_key \in DOMAIN utilization :
            LET A == Cardinality(CyclesWithActivity(pe_key[2], pe_key[3]))
                T == total_cycles
                u == utilization[pe_key]
            IN  IF T = 0
                THEN u.num = 0
                ELSE u.num * T = (IF A > T THEN 100 * T ELSE 100 * A) * u.den

-----------------------------------------------------------------------------
(* Claims on the forward trace (SpecForward) *)

\* the log records an edge from u to v
EdgeRecorded(u, v) ==
    \E i \in 1..Len(all_events) :
        NamesBothEnds(all_events[i]) /\ FromNode(all_events[i]) = u
            /\ ToNode(all_events[i]) = v

\* the line of the log that first records the edge from u to v
EdgePosition(u, v) ==
    CHOOSE i \in 1..Len(all_events) :
        /\ NamesBothEnds(all_events[i]) /\ FromNode(all_events[i]) = u
        /\ ToNode(all_events[i]) = v
        /\ \A j \in 1..(i - 1) :
               ~(NamesBothEnds(all_events[j]) /\ FromNode(all_events[j]) = u
                    /\ ToNode(all_events[j]) = v)

\* the place in the path of the node whose expansion discovered path[k]:
\* the earliest node of the path with an edge to path[k]
Discoverer(k) ==
    CHOOSE i \in 1..Len(path) :
        /\ EdgeRecorded(path[i], path[k])
        /\ \A j \in 1..(i - 1) : ~EdgeRecorded(path[j], path[k])

ForwardTraceReturned ==
    trace_pc = "done" /\ trace_fn \in {"trace_forward", "traceForward"}

\* C12: the list a forward trace returns starts with the source, holds no
\* node twice and only nodes reached over recorded edges, in discovery
\* order: by the place of the discovering node, and among the nodes one
\* node discovers by the order in which its outgoing edges were recorded.
ForwardIsBreadthFirst ==
    ForwardTraceReturned =>
        /\ Len(path) >= 1 /\ path[1] = source_node
        /\ \A i, j \in 1..Len(path) : path[i] = path[j] => i = j
        /\ \A k \in 2..Len(path) : \E i \in 1..(k - 1) : EdgeRecorded(path[i], path[k])
        /\ \A k, l \in 2..Len(path) :
               k < l =>
                   \/ Discoverer(k) < Discoverer(l)
                   \/ /\ Discoverer(k) = Discoverer(l)
                      /\ EdgePosition(path[Discoverer(k)], path[k])
                             < EdgePosition(path[Discoverer(k)], path[l])

-----------------------------------------------------------------------------
(* Claims on the parsers of a raw file (SpecIngest) *)

\* the file without the lines that are no JSON object
WithoutBadLines(lines) == SelectSeq(lines, LAMBDA line : line.line = "object")

\* C14: a line that is no JSON, or JSON that is no object, is skipped and
\* is never fatal: each parser returns, and returns what it returns for the
\* file without that line.
BadLinesAreSkipped ==
    /\ exporter_pc # "new" =>
          /\ exporter_pc = "parsed"
          /\ LET st == ExporterParseLog(WithoutBadLines(raw_log))
             IN  events_by_cycle = st.events_by_cycle /\ max_cycle = st.max_cycle
    /\ tracing_pc # "new" =>
          tracing_graph = build_dataflow_graph_for_tracing(WithoutBadLines(raw_log))
    /\ loader_pc # "new" =>
          /\ loader_pc = "returned"
          /\ LET st == build_dataflow_graph(WithoutBadLines(raw_log))
             IN  loaded = [graph |-> st.graph, reverse_graph |-> st.reverse_graph,
                           all_events |-> st.all_events]

\* C15: a record without a cycle field makes no event: no operation stored
\* under any cycle of the parser's index comes from it, and ingesting it
\* neither pushes to nor pops from a link queue nor adds to the data-flow
\* history.
NoCycleRecordMakesNoEvent ==
    /\ \A t \in DOMAIN timestamps : \A j \in 1..Len(timestamps[t]) :
           timestamps[t][j].content.Time # Missing
    /\ (ingested # <<>> /\ ingested[Len(ingested)].Time = Missing) =>
           /\ pending_data = prev_pending
           /\ Len(data_flow_history) < Len(ingested)

-----------------------------------------------------------------------------
(* Claims on the backpressure statistics (SpecBackpressure) *)

\* the lines of the log that are backpressure events of PE(x, y)
BackpressureLines(x, y) ==
    {i \in 1..Len(util_log) :
        /\ util_log[i].msg \in {"Backpressure", "InstGroup_Blocked",
                                "InstGroup_NotRun", "CheckFlags_Failed"}
        /\ util_log[i].X = x /\ util_log[i].Y = y}

\* the direction a backpressure line names: its Direction field, or for an
\* old-format line the port its Reason names
DirectionNamed(entry) ==
    IF entry.msg = "Backpressure" THEN entry.Direction ELSE entry.Reason.port

\* the type of a backpressure line: its Type field, or for an old-format
\* line its msg
TypeNamed(entry) ==
    IF entry.msg = "Backpressure" THEN entry.Type
    ELSE IF entry.msg = "InstGroup_Blocked" THEN "InstGroupBlocked"
    ELSE IF entry.msg = "InstGroup_NotRun" THEN "InstGroupNotRun"
    ELSE "CheckFlagsFailed"

\* the distinct cycles in which lines of the log fall
CyclesOfLines(lines) == {util_log[i].Time : i \in lines}

BPDirections == {"North", "East", "South", "West"}
BPTypes == {"SendFailed", "RecvSkipped", "InstGroupBlocked", "InstGroupNotRun",
            "CheckFlagsFailed"}
BPCoords == {0, 1}

\* the count kept under a key of the statistics: the size of its set of
\* cycles, 0 when the key is absent
CountUnder(d, k) == IF k \in DOMAIN d THEN Cardinality(d[k]) ELSE 0

\* C16: the backpressure count of a PE is the number of distinct cycles in
\* which the PE has a backpressure event, the counts per (PE, direction)
\* and per type are numbers of distinct cycles as well, and the rate of a
\* PE is count / total_cycles * 100, or 0 when total_cycles is 0.
BackpressureCountsDistinctCycles ==
    util_pc \in {"analyzed", "backpressure plotted"} =>
        \A x \in BPCoords, y \in BPCoords :
            LET lines == BackpressureLines(x, y)
                count == Cardinality(CyclesOfLines(lines))
                pe_key == PEKey(x, y)
            IN  /\ IF lines = {} THEN pe_key \notin DOMAIN pe_backpressure
                   ELSE /\ pe_key \in DOMAIN pe_backpressure
                        /\ Cardinality(pe_backpressure[pe_key].total_cycles) = count
                        /\ \A type \in BPTypes :
                              CountUnder(pe_backpressure[pe_key].by_type, type)
                                = Cardinality(CyclesOfLines(
                                      {i \in lines : TypeNamed(util_log[i]) = type}))
                /\ \A direction \in BPDirections :
                      LET port_key == PortKey(x, y, direction)
                          of_port == {i \in lines :
                                         DirectionNamed(util_log[i]) = direction}
                      IN  IF of_port = {} THEN port_key \notin DOMAIN port_backpressure
                          ELSE /\ port_key \in DOMAIN port_backpressure
                               /\ Cardinality(port_backpressure[port_key].total_cycles)
                                    = Cardinality(CyclesOfLines(of_port))
                /\ (util_pc = "backpressure plotted" /\ lines # {}) =>
                      LET rate == backpressure_rate[pe_key]
                      IN  IF total_cycles = 0 THEN rate.num = 0
                          ELSE rate.num * total_cycles = count * 100 * rate.den

\* C16 witness: the heatmap of a log in which PE(0,0) has two backpressure
\* events in one cycle
BackpressureSameCycleWitness ==
    /\ util_pc = "backpressure plotted"
    /\ total_cycles > 0
    /\ \E i, j \in BackpressureLines(0, 0) :
          i # j /\ util_log[i].Time = util_log[j].Time
    /\ backpressure_rate[PEKey(0, 0)].num = 100

-----------------------------------------------------------------------------
(* Claims on the debug console (SpecConsole) *)

\* the lines of the file that are events with a cycle and no PE coordinate
WithoutCoordinate ==
    {i \in 1..Len(raw_log) :
        /\ raw_log[i].line = "object"
        /\ raw_log[i].value.Time # Missing
        /\ raw_log[i].value.X = Missing \/ raw_log[i].value.Y = Missing}

\* the lines of the file that are events of one kind with a cycle
EventsOfKind(msg) ==
    {i \in 1..Len(raw_log) :
        /\ raw_log[i].line = "object"
        /\ raw_log[i].value.Time # Missing
        /\ raw_log[i].value.msg = msg}

\* C17: an event with a cycle and without PE coordinate is retained, in
\* the store and in the counts by kind of the statistics, and is in no
\* per-PE group of a cycle.
NoCoordinateIsRetainedUngrouped ==
    /\ console_pc # "new" =>
           \A i \in WithoutCoordinate :
               /\ \E j \in 1..Len(console_events) : console_events[j] = raw_log[i].value
               /\ \E j \in 1..Len(DictGet(console_by_cycle, raw_log[i].value.Time)) :
                      console_by_cycle[raw_log[i].value.Time][j] = raw_log[i].value
    /\ (console_cmd[1] = "stats" /\ console_pc = "loaded") =>
           \A msg \in {entry.msg : entry \in RawEntries} :
               EventsOfKind(msg) # {} =>
                   /\ msg \in DOMAIN by_msg
                   /\ by_msg[msg] >= Cardinality(EventsOfKind(msg))
    /\ \A core \in DOMAIN by_core : \A j \in 1..Len(by_core[core]) :
           /\ by_core[core][j].X = core[1] /\ by_core[core][j].Y = core[2]
           /\ \A i \in WithoutCoordinate : by_core[core][j] # raw_log[i].value

\* C17 witness: the statistics and the groups of cycle 2 of a file that
\* has, at cycle 2, an event without coordinates and an event of PE(0,0)
NoCoordinateWitness ==
    /\ console_cmd = <<"cycle", 2>>
    /\ by_msg # EmptyDict
    /\ by_core # EmptyDict
    /\ \E i \in WithoutCoordinate : raw_log[i].value.Time = 2

-----------------------------------------------------------------------------
(* Claims on rebuilding the parser's structures (SpecRebuild) *)

\* C18: after the structures are built a second time from the same log,
\* the per-cycle operations index, the data-flow history and pending(L, C)
\* for every link L and cycle C are what they were after the first build.
RebuildIsIdempotent ==
    (first_build # NotBuilt /\ first_build.rebuilt) =>
        /\ timestamps = first_build.timestamps
        /\ data_flow_history = first_build.data_flow_history
        /\ \A timestamp \in Times :
               PendingOf(data_flow_history, timestamp) = first_build.pending[timestamp]

-----------------------------------------------------------------------------
(* Claims on the queries after ingestion (SpecQueries) *)

\* C19: once ingestion has finished, a query leaves the event store and
\* every index as they are, the set of keys of each index included: the
\* CSV export of core activity leaves the exporter's per-cycle index, and a
\* command of the console leaves the console's events and per-cycle index.
QueriesLeaveTheStoreUnchanged ==
    [][ /\ exporter_pc = "parsed" =>
              /\ events_by_cycle' = events_by_cycle
              /\ DOMAIN events_by_cycle' = DOMAIN events_by_cycle
              /\ max_cycle' = max_cycle
        /\ console_pc = "loaded" =>
              /\ console_events' = console_events
              /\ console_by_cycle' = console_by_cycle
              /\ console_max_cycle' = console_max_cycle ]_vars

-----------------------------------------------------------------------------
(* Claims on the reach of the forward trace (SpecReach) *)

\* the nodes at most hops recorded edges away from node
RECURSIVE WithinHops(_, _)
WithinHops(node, hops) ==
    IF hops = 0 THEN {node}
    ELSE LET nearer == WithinHops(node, hops - 1)
         IN  nearer \cup {<<0, n, "East", 0>> : n \in
                              {m \in ReachNames :
                                  \E u \in nearer :
                                      EdgeRecorded(u, <<0, m, "East", 0>>)}}

\* C21: trace_forward(source, max_depth) returns every node whose shortest
\* distance from the source along outgoing edges is at most max_depth.
ForwardReachesEveryNodeWithinDepth ==
    (trace_pc = "done" /\ trace_fn = "trace_forward") =>
        \A node \in WithinHops(source_node, max_depth) :
            \E k \in 1..Len(path) : path[k] = node

-----------------------------------------------------------------------------
(* Claims on the Collect lines (SpecFifo) *)

\* C22: a Collect is a pop of its link and belongs to the replayed history:
\* every ingested Collect line has its flow event, with its cycle, in
\* data_flow_history, and the Collect ingested last has removed the oldest
\* payload if a queue ending at its device had one.
CollectIsAReplayedPop ==
    /\ \A i \in 1..Len(ingested) :
           ingested[i].Behavior = "Collect" =>
               \E k \in 1..Len(data_flow_history) :
                   /\ data_flow_history[k].operation_type = "Collect"
                   /\ data_flow_history[k].timestamp = TimestampOf(ingested[i])
    /\ (Len(ingested) > 0 /\ ingested[Len(ingested)].Behavior = "Collect"
           /\ \E L \in DOMAIN prev_pending : prev_pending[L] # <<>>)
          => data_flow_history # <<>>
             /\ data_flow_history[Len(data_flow_history)].operation_type = "Collect"

-----------------------------------------------------------------------------
(* Claims on the completeness of the token events (SpecToken) *)

\* the DataFlow lines of the log that carry the token and a cycle
LinesCarryingToken(token_id) ==
    {i \in 1..Len(token_log) :
        /\ token_log[i].msg = "DataFlow"
        /\ token_log[i].TokenID = token_id
        /\ token_log[i].Time # Missing}

\* C23: the list build_token_events returns for a token has exactly one
\* entry for every ingested event that carries the token and a cycle: k
\* such events give k entries and none of them is left out.
TokenPathIsComplete ==
    token_built =>
        \A token_id \in TokenIds :
            Len(DictGet(token_events, token_id))
                = Cardinality(LinesCarryingToken(token_id))
                      + Cardinality(PortsOfToken(token_id))

-----------------------------------------------------------------------------
(* Claims on the grid position of a reference (SpecResolve) *)

\* (row, column) of a parsed position
RowColumn(position) == <<position[2], position[3]>>

\* C24: a reference resolves to the same grid position in every code path:
\* a driver reference gets the same (row, column) from
\* _parse_device_position, from _parse_route and from the drawing code, and
\* Tile[r][c] gets row r and column c.
ReferenceHasOnePosition ==
    resolved.done =>
        \A side \in {1, 2} :
            LET ref == resolved.route[side]
                x_y == resolved.drawn[side]
            IN  /\ ref.kind = "Driver" =>
                       /\ RowColumn(resolved.by_route[side])
                              = RowColumn(resolved.by_position[side])
                       /\ <<x_y[2], x_y[1]>> = RowColumn(resolved.by_position[side])
                /\ ref.kind = "Tile" =>
                       /\ RowColumn(resolved.by_position[side]) = <<ref.row, ref.col>>
                       /\ RowColumn(resolved.by_route[side]) = <<ref.row, ref.col>>
                       /\ <<x_y[2], x_y[1]>> = <<ref.row, ref.col>>

-----------------------------------------------------------------------------
(* Claims on the cycle index (SpecCycleIndex) *)

\* the lines of the file that parse to a dict carrying a Time, in file order
EventsWithCycle ==
    SelectSeq([i \in 1..Len(raw_log) |-> JsonLoads(raw_log[i])],
              LAMBDA event : IsDict(event) /\ event.Time # Missing)

\* the index holds, under every cycle, the events of that cycle in the order
\* of the sequence, and has no other key
IndexesInArrivalOrder(index, sequence) ==
    /\ DOMAIN index = {sequence[i].Time : i \in 1..Len(sequence)}
    /\ \A cycle \in DOMAIN index :
           index[cycle] = SelectSeq(sequence, LAMBDA event : event.Time = cycle)

-----------------------------------------------------------------------------
(* Claims on the backpressure diagnosis (SpecDiagnosis) *)

\* C26: for every arrival order, find_blocking_reasons(x, y, max_cycle)
\* collects every Backpressure event of PE (x, y) whose cycle is at most
\* max_cycle; an event of a larger cycle that arrives earlier hides none.
BlockingReasonsAreComplete ==
    diag_query[1] = "find_blocking_reasons" =>
        \A i \in 1..Len(diag_events) :
            (/\ diag_events[i].msg = "Backpressure"
             /\ diag_events[i].X = diag_query[2] /\ diag_events[i].Y = diag_query[3]
             /\ diag_events[i].Time # Missing /\ diag_events[i].Time <= diag_query[4])
                => \E k \in 1..Len(blocking_events) : blocking_events[k] = diag_events[i]

-----------------------------------------------------------------------------
(* Claims on the dashboard (SpecDashboard) *)

\* C30: after any sequence of Debug runs and previous/next clicks, whenever
\* the script displays an image the stored static image index is a valid
\* index into the current static images and the stored timestep is a valid
\* index into the current mesh and DFG images.
DashboardIndicesAreValid ==
    /\ shown.static \in {"image", "IndexError"} =>
           (static_idx >= 0 /\ static_idx < static_files)
    /\ shown.dynamic \in {"image", "IndexError"} =>
           (timestep >= 0 /\ timestep < Min(mesh_files, dfg_files))

-----------------------------------------------------------------------------
(* Claims on the incremental queues and the replay (SpecFifo) *)

\* the query cycles that are not before any ingested timestamp
TimesFromLastIngested ==
    {T \in QueryTimes \cup {LastTime + 1} :
        \A i \in 1..Len(ingested) : TimestampOf(ingested[i]) <= T}

\* C27: after any ingested sequence the incrementally maintained queue of
\* every link equals the queue _get_pending_data_at_timestamp(T) gives for
\* it, for every T not smaller than the largest ingested timestamp.
IncrementalEqualsReplay ==
    \A T \in TimesFromLastIngested :
        /\ \A L \in AllLinks :
               DictGet(pending_data, L) = DictGet(_get_pending_data_at_timestamp(T), L)
        /\ pending_data = _get_pending_data_at_timestamp(T)

\* C27 witness: three lines of cycle 0, two pushes on a link and a pop that
\* took the first payload, so that every query cycle is compared
IncrementalReplayWitness ==
    /\ Len(ingested) = 3
    /\ \A i \in 1..3 : TimestampOf(ingested[i]) = 0
    /\ \E L \in AllLinks :
           /\ EffectivePops(L, LastTime) = 1
           /\ Len(DictGet(pending_data, L)) = 1

\* ingesting the line of a link leaves the queue of every other link, in
\* pending_data and in the replay at every query cycle, as it was
OtherLinksKeepTheirQueues ==
    Len(ingested') = Len(ingested) + 1 =>
        \A other \in AllLinks \ {LinkOf(ingested'[Len(ingested')])} :
            /\ DictGet(pending_data', other) = DictGet(pending_data, other)
            /\ \A C \in QueryTimes :
                   DictGet(PendingOf(data_flow_history', C), other)
                       = DictGet(PendingOf(data_flow_history, C), other)

\* C28: a push or a pop of link L changes only the queue of L: for every
\* other link the pending queue and pending(L', C) at every cycle C are the
\* same before and after the event, for any interleaving of the links.
PushPopChangesOnlyItsLink == [][OtherLinksKeepTheirQueues]_vars

\* C28 witness: a pop of one link took a payload while the link of the
\* line before it holds a payload
InterleavedLinksWitness ==
    /\ Len(ingested) = 3
    /\ events[3].link # NoLink /\ events[2].link # NoLink
    /\ events[3].link # events[2].link
    /\ ~events[3].push
    /\ DictGet(pending_data, events[3].link) # DictGet(prev_pending, events[3].link)
    /\ DictGet(pending_data, events[2].link) # <<>>

-----------------------------------------------------------------------------
(* Claims on the cycle, direction and channel of a trace (SpecChannel) *)

\* two nodes of the same cycle, direction and channel
SameChannel(u, v) == u[1] = v[1] /\ u[3] = v[3] /\ u[4] = v[4]

\* every edge stored under a node of the dict joins it to a node of the
\* same cycle, direction and channel
EdgesStayInChannel(edges) ==
    \A node \in DOMAIN edges :
        \A k \in 1..Len(edges[node]) : SameChannel(node, edges[node][k][1])

\* C29: every edge of the dataflow graph joins two nodes of the same cycle,
\* direction and channel, so every node on the path of a backward or
\* forward trace has the cycle, direction and channel of the node the trace
\* started from.
TraceStaysInChannel ==
    /\ EdgesStayInChannel(graph)
    /\ EdgesStayInChannel(reverse_graph)
    /\ trace_fn = "trace_backward" =>
           \A k \in 1..Len(path) : SameChannel(path[k], sink_node)
    /\ trace_fn = "trace_forward" =>
           \A k \in 1..Len(path) : SameChannel(path[k], source_node)

\* C29 witness: a trace has returned a path of two nodes from a graph that
\* also has an edge of another cycle, direction or channel
OtherChannelWitness ==
    /\ trace_pc = "done"
    /\ Len(path) = 2
    /\ \E node \in DOMAIN graph : ~SameChannel(node, path[1])

=============================================================================
